---- MODULE Spec2Model ----
(***************************************************************************)
(* Streaming speech-to-text: the server's per-connection session           *)
(* (main.py, websocket_endpoint) and the clients' capture pipeline         *)
(* (Clients/Client-Ws.py, Clients/Client-WS-Desktopaudio.py).              *)
(*                                                                         *)
(* The recognition engine (vosk.KaldiRecognizer) and the voice-activity    *)
(* classifier (webrtcvad.Vad) are external libraries.  The recognizer is   *)
(* a heap object holding the words accepted since its last flush; every    *)
(* word carries the connection it was received on, so that the text of a   *)
(* message tells where its audio came from.  The classifier's answer is    *)
(* an input of the step that asks for it.                                  *)
(***************************************************************************)
EXTENDS Integers, Sequences, FiniteSets, TLC

(***************************************************************************)
(* Bounds of the model.                                                    *)
(***************************************************************************)
\* Words a recognizer holds before audio carrying a further word is withheld.
MaxPending == 2
\* Chunks a connection holds that its session has not received yet.
MaxInbound == 2

\* The connections made to /ws/stt/{lang_code}: two, which may be open at
\* the same time, on the same language or not.
Conns == {1, 2}
\* The recognizer objects there can be: one per connection.
RecIds == Conns
NoRecognizer == 0

(***************************************************************************)
(* Server: configuration and collaborators.                                *)
(***************************************************************************)
\* Language codes the connections ask for; "xx" is not loaded.
RequestedLangs == {"en", "xx"}

\* main.py: loaded_models = model_loader.load_vosk_models()
loaded_models == {"en", "vi"}

\* ModelLoader.get_all(): the loaded language codes (the class itself is not
\* part of the sources at hand; this is the registry's hasLanguage).
get_all == loaded_models

\* One socket message of audio: it carries a word, or only silence.
Chunks == {"word", "silence"}

\* What a chunk received on connection s adds to the recognizer's text.
Tokens(s, data) == IF data = "word" THEN <<s>> ELSE <<>>

\* json.dumps({"partial": t}) / json.dumps({"text": t})
Msg(key, t) == [key |-> key, text |-> t]

\* The exceptions the session tells apart (except clauses of websocket_endpoint).
ClosedKinds == {"WebSocketDisconnect", "ConnectionClosedOK", "ConnectionClosedError"}
ExcKinds == ClosedKinds \cup {"Exception"}

\* ConnectionClosedError.rcvd: the close frame received, or None.
Rcvd == {"frame", "none"}

VARIABLES
  state,          \* per connection: "Connecting", "Active", "Closed"
  lang_code,      \* per connection: the path segment
  accepted,       \* per connection: websocket.accept() was called
  close_codes,    \* per connection: codes of the websocket.close() calls made
  recognizer,     \* per connection: the KaldiRecognizer it holds, or NoRecognizer
  pending,        \* per recognizer: words accepted and not yet flushed
  constructed,    \* recognizers constructed so far
  built,          \* per connection: recognizers it constructed
  released,       \* recognizers whose session has returned
  stale_use,      \* a recognizer was called after its release
  idle,           \* per connection: timeouts / finals since the last audio
  exit,           \* per connection: how the Active loop was left
  last,           \* the latest step: who took it, what it computed and sent
  inbound         \* per connection: chunks delivered and not yet received

serverVars == <<state, lang_code, accepted, close_codes, recognizer, pending,
                constructed, built, released, stale_use, idle, exit, last,
                inbound>>

\* The state of a client (Client-Ws.py or Client-WS-Desktopaudio.py).
VARIABLES
  variant,               \* which client runs
  recording_active,
  loop_running,          \* the asyncio loop of run_stt_client runs
  send_audio_enabled,
  temp_audio_buffer,
  speaking,
  silence_frames_count,
  audio_queue,
  put_pending,           \* desktop: audio_queue.put() coroutines handed to the loop
  in_bytes,              \* every byte appended to temp_audio_buffer so far
  carried,               \* a block arrived while the buffer held part of a frame
  out_frames,            \* every frame handed to process_vad so far
  obs,                   \* what an observer of the classifications counts
  vad_last               \* the latest process_vad call

clientVars == <<variant, recording_active, loop_running, send_audio_enabled,
                temp_audio_buffer, speaking, silence_frames_count, audio_queue,
                put_pending, in_bytes, out_frames, carried, obs, vad_last>>

\* The session of a client with the server: run_stt_client, send_task and
\* receive_task, and what the terminal shows.
VARIABLES
  session,               \* where run_stt_client and its tasks stand
  trace,                 \* what an observer of the session has seen so far
  term,                  \* the terminal: the line under the cursor, the line above
  rx_last                \* the latest message receive_task took

sessionVars == <<session, trace, term, rx_last>>

vars == <<serverVars, clientVars, sessionVars>>

NoIdle == [timeouts |-> 0, finals |-> 0]
NoExit == [kind |-> "none", finalized |-> FALSE, escaped |-> FALSE]
NoLast == [actor |-> 0, op |-> "none", fault |-> "none", processed |-> FALSE,
           data |-> "none", held |-> <<>>, partial_text |-> <<>>, result_text |-> <<>>,
           emit |-> [t \in Conns |-> <<>>]]

InitServer ==
  /\ state = [s \in Conns |-> "Connecting"]
  /\ lang_code \in [Conns -> RequestedLangs]
  /\ accepted = [s \in Conns |-> FALSE]
  /\ close_codes = [s \in Conns |-> <<>>]
  /\ recognizer = [s \in Conns |-> NoRecognizer]
  /\ pending = [r \in RecIds |-> <<>>]
  /\ constructed = 0
  /\ built = [s \in Conns |-> 0]
  /\ released = {}
  /\ stale_use = FALSE
  /\ idle = [s \in Conns |-> NoIdle]
  /\ exit = [s \in Conns |-> NoExit]
  /\ last = NoLast
  /\ inbound = [s \in Conns |-> <<>>]


(***************************************************************************)
(* Server: websocket_endpoint.                                             *)
(***************************************************************************)
\* (variant: one recognizer kept and handed to every connection)
KaldiRecognizer_Shared(n) == 1

\* recognizer = KaldiRecognizer(model, SAMPLE_RATE): a new object each time;
\* n is the number of recognizers constructed before.
KaldiRecognizer(n) == n + 1

\* A call of a recognizer method: is r one whose session has returned?
CallsReleased(r) == r \in released

\* (variant: the connection is accepted and its recognizer built before the
\* language is looked up)
Accepting_AcceptFirst(s) ==
  /\ state[s] = "Connecting"
  /\ accepted' = [accepted EXCEPT ![s] = TRUE]
  /\ constructed' = constructed + 1
  /\ built' = [built EXCEPT ![s] = @ + 1]
  /\ IF lang_code[s] \notin get_all
     THEN /\ close_codes' = [close_codes EXCEPT ![s] = Append(@, 1008)]
          /\ state' = [state EXCEPT ![s] = "Closed"]
          /\ last' = [NoLast EXCEPT !.actor = s, !.op = "reject"]
          /\ UNCHANGED recognizer
     ELSE /\ recognizer' = [recognizer EXCEPT ![s] = KaldiRecognizer(constructed)]
          /\ state' = [state EXCEPT ![s] = "Active"]
          /\ last' = [NoLast EXCEPT !.actor = s, !.op = "accept"]
          /\ UNCHANGED close_codes
  /\ UNCHANGED <<lang_code, pending, released, stale_use, idle, exit, inbound>>
  /\ UNCHANGED <<clientVars, sessionVars>>

\* Validation, acceptance and construction, up to the entry of the loop.
Accepting(s) ==
  /\ state[s] = "Connecting"
  /\ IF lang_code[s] \notin get_all
     THEN /\ close_codes' = [close_codes EXCEPT ![s] = Append(@, 1008)]
          /\ state' = [state EXCEPT ![s] = "Closed"]
          /\ last' = [NoLast EXCEPT !.actor = s, !.op = "reject"]
          /\ UNCHANGED <<accepted, recognizer, constructed, built>>
     ELSE /\ accepted' = [accepted EXCEPT ![s] = TRUE]
          /\ recognizer' = [recognizer EXCEPT ![s] = KaldiRecognizer(constructed)]
          /\ constructed' = constructed + 1
          /\ built' = [built EXCEPT ![s] = @ + 1]
          /\ state' = [state EXCEPT ![s] = "Active"]
          /\ last' = [NoLast EXCEPT !.actor = s, !.op = "accept"]
          /\ UNCHANGED close_codes
  /\ UNCHANGED <<lang_code, pending, released, stale_use, idle, exit, inbound>>
  /\ UNCHANGED <<clientVars, sessionVars>>

\* The faults of one loop iteration: the call that raises and what it raises.
NoFault == [at |-> "none", kind |-> "none", rcvd |-> "frame"]
RaisedBy(at, kinds) ==
  {f \in [at : {at}, kind : kinds, rcvd : Rcvd] :
     f.kind = "ConnectionClosedError" \/ f.rcvd = "frame"}

\* (variant: a text is sent whether it is empty or not)
SendIfText_Always(key, text) == <<Msg(key, text)>>

\* if partial_text: await websocket.send_text(...) (lines 164-165), and
\* if final_text: ... in the timeout branch (lines 183-184)
SendIfText(key, text) == IF text # <<>> THEN <<Msg(key, text)>> ELSE <<>>

\* (variant: the result is sent as final whatever AcceptWaveform returned)
SecondSend_NoBranch(processed, held) ==
  IF held # <<>> THEN <<Msg("text", held)>> ELSE <<>>

\* if processed: Result() ... else: PartialResult() ... (lines 167-178): the
\* message sent, held being the text the recognizer gives.
SecondSend(processed, held) ==
  IF processed
  THEN IF held # <<>> THEN <<Msg("text", held)>> ELSE <<>>
  ELSE IF held # <<>> THEN <<Msg("partial", held)>> ELSE <<>>

\* The body of the loop after bytes arrived (lines 157-178), p the
\* recognizer's words before, toks the words of the chunk, processed what
\* AcceptWaveform returns, at the call that raises.  Result() hands out the
\* words and forgets them; PartialResult() hands them out and keeps them.
ProcessChunk(p, toks, processed, at) ==
  LET p1 == p \o toks
      partial_text == p1
      e1 == SendIfText("partial", partial_text)
      final_text == p1
      e2 == SecondSend(processed, p1)
      p2 == IF processed THEN <<>> ELSE p1
      none == <<>>
  IN CASE at = "AcceptWaveform" ->
            [pending |-> p, emit |-> <<>>, partial_text |-> none, result_text |-> none]
       [] at = "PartialResult" ->
            [pending |-> p1, emit |-> <<>>, partial_text |-> none, result_text |-> none]
       [] at = "send_partial" ->
            [pending |-> p1, emit |-> <<>>, partial_text |-> partial_text, result_text |-> none]
       [] at = "second_result" ->
            [pending |-> p1, emit |-> e1, partial_text |-> partial_text, result_text |-> none]
       [] at = "send_second" ->
            [pending |-> p2, emit |-> e1, partial_text |-> partial_text,
             result_text |-> IF processed THEN final_text ELSE none]
       [] OTHER ->
            [pending |-> p2, emit |-> e1 \o e2, partial_text |-> partial_text,
             result_text |-> IF processed THEN final_text ELSE none]

\* The faults that can happen in ProcessChunk: a send is made only for a
\* non-empty text.
ChunkFaults(p, toks) ==
  {NoFault}
    \cup RaisedBy("AcceptWaveform", {"Exception"})
    \cup RaisedBy("PartialResult", {"Exception"})
    \cup RaisedBy("second_result", {"Exception"})
    \cup (IF p \o toks # <<>>
          THEN RaisedBy("send_partial", ExcKinds) \cup RaisedBy("send_second", ExcKinds)
          ELSE {})

\* (variant: the timeout reads the text without flushing it)
ProcessTimeout_NoFlush(p, at) ==
  LET final_text == p
      e == IF final_text # <<>> THEN <<Msg("text", final_text)>> ELSE <<>>
  IN CASE at = "FinalResult" -> [pending |-> p, emit |-> <<>>, result_text |-> <<>>]
       [] at = "send_final" -> [pending |-> p, emit |-> <<>>, result_text |-> final_text]
       [] OTHER -> [pending |-> p, emit |-> e, result_text |-> final_text]

\* The except asyncio.TimeoutError branch (lines 179-184): FinalResult()
\* hands out the words and forgets them.
ProcessTimeout(p, at) ==
  LET final_text == p
      e == SendIfText("text", final_text)
  IN CASE at = "FinalResult" -> [pending |-> p, emit |-> <<>>, result_text |-> <<>>]
       [] at = "send_final" -> [pending |-> <<>>, emit |-> <<>>, result_text |-> final_text]
       [] OTHER -> [pending |-> <<>>, emit |-> e, result_text |-> final_text]

TimeoutFaults(p) ==
  {NoFault}
    \cup RaisedBy("FinalResult", {"Exception"})
    \cup (IF p # <<>> THEN RaisedBy("send_final", ExcKinds) ELSE {})

\* (variant: the last clause logs and closes nothing)
ExceptHandler_NoClose(kind, rcvd) ==
  [close |-> <<>>, finalize |-> (kind = "WebSocketDisconnect"),
   escaped |-> (kind = "ConnectionClosedError" /\ rcvd = "none")]

\* (variant: every clause tries the close of the last one)
ExceptHandler_ClosesAlways(kind, rcvd) ==
  [close |-> <<1011>>, finalize |-> (kind = "WebSocketDisconnect"),
   escaped |-> (kind = "ConnectionClosedError" /\ rcvd = "none")]

\* The except clauses after the loop (lines 187-204): the close attempted,
\* whether FinalResult() is computed, whether the handler itself raises
\* (e.rcvd.code with e.rcvd None).
ExceptHandler(kind, rcvd) ==
  CASE kind = "WebSocketDisconnect" ->
         [close |-> <<>>, finalize |-> TRUE, escaped |-> FALSE]
    [] kind = "ConnectionClosedOK" ->
         [close |-> <<>>, finalize |-> FALSE, escaped |-> FALSE]
    [] kind = "ConnectionClosedError" ->
         [close |-> <<>>, finalize |-> FALSE, escaped |-> (rcvd = "none")]
    [] OTHER ->
         [close |-> <<1011>>, finalize |-> FALSE, escaped |-> FALSE]

\* (variant: the messages go to every open socket)
SendText_Broadcast(s, msgs) == [t \in Conns |-> msgs]

\* await websocket.send_text(...): the messages go to the socket of the
\* session that sends them.
SendText(s, msgs) == [t \in Conns |-> IF t = s THEN msgs ELSE <<>>]

\* What an iteration leaves behind: the recognizer's words p and, when f is
\* a fault, the way out of the loop and of the function (the recognizer, a
\* local of the function, goes with it).
Continue(s, f, p) ==
  LET r == recognizer[s]
      h == ExceptHandler(f.kind, f.rcvd)
  IN /\ stale_use' = (stale_use \/ CallsReleased(r))
     /\ IF f.at = "none"
        THEN /\ pending' = [pending EXCEPT ![r] = p]
             /\ UNCHANGED <<state, close_codes, recognizer, released, exit>>
        ELSE /\ pending' = [pending EXCEPT ![r] = <<>>]
             /\ state' = [state EXCEPT ![s] = "Closed"]
             /\ close_codes' = [close_codes EXCEPT ![s] = @ \o h.close]
             /\ recognizer' = [recognizer EXCEPT ![s] = NoRecognizer]
             /\ released' = released \cup {r}
             /\ exit' = [exit EXCEPT ![s] = [kind |-> f.kind,
                                             finalized |-> h.finalize,
                                             escaped |-> h.escaped]]
     /\ UNCHANGED <<lang_code, accepted, constructed, built>>
     /\ UNCHANGED <<clientVars, sessionVars>>

\* The client sends a chunk of audio: the connection holds it until the
\* session receives it.
Deliver(s, data) ==
  /\ state[s] = "Active"
  /\ Len(inbound[s]) < MaxInbound
  /\ inbound' = [inbound EXCEPT ![s] = Append(@, data)]
  /\ UNCHANGED <<state, lang_code, accepted, close_codes, recognizer, pending,
                 constructed, built, released, stale_use, idle, exit, last>>
  /\ UNCHANGED <<clientVars, sessionVars>>

\* (variant: the receive that is cancelled takes the next chunk with it)
CancelReceive_DropsChunk(q) == IF q = <<>> THEN q ELSE Tail(q)

\* asyncio.wait_for cancels websocket.receive_bytes() when the timeout
\* expires: q is what the connection holds, the result what it holds after.
CancelReceive(q) == q

\* receive_bytes() returned data within RECEIVE_TIMEOUT.
ReceiveBytes(s, data, processed, f) ==
  LET r == recognizer[s]
      res == ProcessChunk(pending[r], Tokens(s, data), processed, f.at)
  IN /\ state[s] = "Active"
     /\ inbound[s] # <<>>
     /\ data = Head(inbound[s])
     /\ inbound' = [inbound EXCEPT ![s] = Tail(@)]
     /\ data = "word" => Len(pending[r]) < MaxPending
     /\ f \in ChunkFaults(pending[r], Tokens(s, data))
     /\ Continue(s, f, res.pending)
     /\ idle' = [idle EXCEPT ![s] = NoIdle]
     /\ last' = [actor |-> s, op |-> "bytes", fault |-> f.at,
                 processed |-> (processed /\ f.at = "none"),
                 data |-> data, held |-> <<>>,
                 partial_text |-> res.partial_text,
                 result_text |-> IF f.at = "none" THEN res.result_text ELSE <<>>,
                 emit |-> SendText(s, res.emit)]

Cap2(n) == IF n > 2 THEN 2 ELSE n

\* wait_for() raised asyncio.TimeoutError.
ReceiveTimeout(s, f) ==
  LET r == recognizer[s]
      res == ProcessTimeout(pending[r], f.at)
  IN /\ state[s] = "Active"
     /\ f \in TimeoutFaults(pending[r])
     /\ inbound' = [inbound EXCEPT ![s] = CancelReceive(@)]
     /\ Continue(s, f, res.pending)
     /\ idle' = [idle EXCEPT ![s] =
                   IF f.at # "none" THEN NoIdle
                   ELSE [timeouts |-> Cap2(@.timeouts + 1),
                         finals |-> Cap2(@.finals + Len(res.emit))]]
     /\ last' = [actor |-> s, op |-> "timeout", fault |-> f.at, processed |-> FALSE,
                 data |-> "none", held |-> pending[r], partial_text |-> <<>>,
                 result_text |-> res.result_text, emit |-> SendText(s, res.emit)]

\* receive_bytes() raised: the client went away, or sent something else.
ReceiveRaises(s, f) ==
  LET r == recognizer[s]
  IN /\ state[s] = "Active"
     /\ f \in RaisedBy("receive_bytes", ExcKinds)
     /\ UNCHANGED inbound
     /\ Continue(s, f, pending[r])
     /\ idle' = [idle EXCEPT ![s] = NoIdle]
     /\ last' = [NoLast EXCEPT !.actor = s, !.op = "exit", !.fault = f.at]

AllFaults ==
  {NoFault} \cup UNION {RaisedBy(at, ExcKinds) :
     at \in {"AcceptWaveform", "PartialResult", "send_partial", "second_result",
             "send_second", "FinalResult", "send_final", "receive_bytes"}}

NextServer ==
  \E s \in Conns :
    \/ Accepting(s)
    \/ \E data \in Chunks : Deliver(s, data)
    \/ \E data \in Chunks, processed \in BOOLEAN, f \in AllFaults :
         ReceiveBytes(s, data, processed, f)
    \/ \E f \in AllFaults : ReceiveTimeout(s, f)
    \/ \E f \in AllFaults : ReceiveRaises(s, f)

(***************************************************************************)
(* Server: the claims.                                                     *)
(***************************************************************************)
Keys(e) == {e[i].key : i \in DOMAIN e}
Texts(e, key) == {e[i].text : i \in {j \in DOMAIN e : e[j].key = key}}

\* C1: a connection that asks for a language code that is not loaded is
\* closed with code 1008 without ever being accepted, no recognizer is
\* constructed for it, and it goes from Accepting straight to Closed: it is
\* never Active and never leaves through the loop's handlers.
C1_UnsupportedLanguageRejected ==
  \A s \in Conns :
    lang_code[s] \notin loaded_models =>
      /\ state[s] \in {"Connecting", "Closed"}
      /\ ~accepted[s]
      /\ built[s] = 0
      /\ recognizer[s] = NoRecognizer
      /\ exit[s] = NoExit
      /\ state[s] = "Closed" => close_codes[s] = <<1008>>
      /\ state[s] = "Connecting" => close_codes[s] = <<>>

C1_Witness ==
  \E s \in Conns :
    /\ lang_code[s] = "xx"
    /\ state[s] = "Closed"
    /\ close_codes[s] = <<1008>>
    /\ constructed = 1

\* C2: in an iteration that received a chunk, a Partial is sent exactly when
\* PartialResult() gave a non-empty text, and carries that text; a Final is
\* sent exactly when AcceptWaveform returned true and Result() gave a
\* non-empty text, and carries that text; when an iteration is cut short by
\* an exception, whatever it sent before still obeys the "only when" half.
C2_ChunkEmission ==
  last.op = "bytes" =>
    LET e == last.emit[last.actor]
    IN /\ "partial" \in Keys(e) => Texts(e, "partial") = {last.partial_text}
       /\ "partial" \in Keys(e) => last.partial_text # <<>>
       /\ "text" \in Keys(e) => last.processed /\ Texts(e, "text") = {last.result_text}
       /\ "text" \in Keys(e) => last.result_text # <<>>
       /\ Cardinality({i \in DOMAIN e : e[i].key = "text"}) <= 1
       /\ last.fault = "none" =>
            /\ last.partial_text # <<>> => "partial" \in Keys(e)
            /\ (last.processed /\ last.result_text # <<>>) => "text" \in Keys(e)

C2_Witness ==
  /\ last.op = "bytes"
  /\ last.fault = "none"
  /\ last.processed
  /\ Keys(last.emit[last.actor]) = {"partial", "text"}

\* C3: when the receive timeout fires with a recognizer that holds text, that
\* timeout sends one Final with the held text; the timeouts that follow
\* without audio in between send nothing, so that a session never sends a
\* second Final between two chunks; a timeout with nothing held sends nothing.
C3_IdleFinalization ==
  /\ \A s \in Conns : idle[s].finals <= 1
  /\ (last.op = "timeout" /\ last.fault = "none") =>
       LET s == last.actor
       IN /\ state[s] = "Active"
          /\ idle[s].timeouts = 1 =>
               /\ last.held # <<>> =>
                    last.emit[s] = <<Msg("text", last.held)>> /\ idle[s].finals = 1
               /\ last.held = <<>> => last.emit[s] = <<>> /\ idle[s].finals = 0
          /\ idle[s].timeouts > 1 => last.emit[s] = <<>>

C3_Witness ==
  /\ last.op = "timeout"
  /\ last.fault = "none"
  /\ idle[last.actor].timeouts = 2
  /\ idle[last.actor].finals = 1
  /\ last.emit[last.actor] = <<>>

\* C4 (as claimed): every session that was Active and is Closed left the loop
\* through a handler that computed FinalResult() once more, and holds no
\* recognizer any more.
C4_EveryExitFinalizes ==
  \A s \in Conns :
    (state[s] = "Closed" /\ accepted[s]) =>
      exit[s].finalized /\ recognizer[s] = NoRecognizer

\* The calls of an iteration that decode or respond (receive_bytes is the
\* wait for input).
DecodeOrRespond ==
  {"AcceptWaveform", "PartialResult", "send_partial", "second_result",
   "send_second", "FinalResult", "send_final"}

OthersUntouched ==
  \A t \in Conns :
    t # last'.actor =>
      /\ <<state[t], accepted[t], close_codes[t], recognizer[t], built[t],
           idle[t], exit[t]>>' =
         <<state[t], accepted[t], close_codes[t], recognizer[t], built[t],
           idle[t], exit[t]>>
      /\ recognizer[t] # NoRecognizer => pending'[recognizer[t]] = pending[recognizer[t]]
      /\ last'.emit[t] = <<>>

FaultHandled ==
  last.fault \in DecodeOrRespond =>
    LET s == last.actor
    IN /\ state[s] = "Closed"
       /\ exit[s].kind = "Exception" => close_codes[s] = <<1011>> /\ ~exit[s].escaped
       /\ exit[s].kind \in ClosedKinds => close_codes[s] = <<>>
       /\ exit[s].escaped => exit[s].kind = "ConnectionClosedError"

C6_SessionIsolation ==
  \A t \in Conns :
    \A i \in DOMAIN last.emit[t] :
      \A j \in DOMAIN last.emit[t][i].text : last.emit[t][i].text[j] = t

C6_Witness ==
  /\ \A s \in Conns : state[s] = "Active" /\ lang_code[s] = "en"
  /\ \A s \in Conns : pending[recognizer[s]] # <<>>
  /\ last.emit[last.actor] # <<>>

\* C7: a connection constructs one recognizer if it is accepted and none
\* otherwise, and is accepted only with a loaded language; an Active session
\* holds a recognizer, no two sessions hold the same one, and no recognizer
\* is held or called once its session has returned.
C7_OneRecognizerPerConnection ==
  /\ \A s \in Conns :
       /\ built[s] = IF accepted[s] THEN 1 ELSE 0
       /\ accepted[s] => lang_code[s] \in loaded_models
       /\ state[s] = "Active" <=> recognizer[s] # NoRecognizer
       /\ recognizer[s] \notin released
  /\ \A s, t \in Conns :
       (s # t /\ recognizer[s] # NoRecognizer) => recognizer[s] # recognizer[t]
  /\ ~stale_use

C7_Witness ==
  \E s, t \in Conns :
    /\ state[s] = "Closed" /\ accepted[s]
    /\ state[t] = "Active"
    /\ last.actor = t /\ last.op = "bytes"
    /\ released # {}

(***************************************************************************)
(* Clients: configuration.  Client-Ws.py captures the microphone in a      *)
(* sounddevice callback; Client-WS-Desktopaudio.py captures the loopback   *)
(* device in a thread of its own.                                          *)
(***************************************************************************)
Variants == {"Ws", "Desktop"}

\* BYTES_PER_SAMPLE = np.dtype(np.int16).itemsize
BYTES_PER_SAMPLE == 2
CHANNELS == 1
VAD_FRAME_MS == 30
\* VAD_FRAME_SAMPLES = int(SAMPLE_RATE * (VAD_FRAME_MS / 1000)), 480 in the
\* programs; the model keeps frames of a few samples.
VAD_FRAME_SAMPLES == 2
VAD_FRAME_BYTES == VAD_FRAME_SAMPLES * BYTES_PER_SAMPLE * CHANNELS
\* SILENCE_FRAMES_THRESHOLD = int(500 / VAD_FRAME_MS)
SILENCE_FRAMES_THRESHOLD == 500 \div VAD_FRAME_MS
\* if audio_queue.qsize() < 50 in the desktop client; the model keeps a
\* limit of a few items.
QSIZE_LIMIT == 2
\* Samples captured during one run of the segmenter.
MaxInputSamples == 4
\* Items the queue and the loop's scheduled puts hold before capture waits.
MaxQueue == 3

\* A captured sample: a float in [-1, 1], or not a number.
SampleValues == {"0.0", "1.0", "nan"}
\* What astype(np.int16) makes of a NaN (it depends on the build).
NanCasts == {0, -32768}
\* A block handed over by the device: shorter than a frame, as long as one,
\* or longer.
MaxBlockSamples == VAD_FRAME_SAMPLES + 1
Blocks == UNION {[1..n -> SampleValues] : n \in 1..MaxBlockSamples}

\* (x * 32767).astype(np.int16) for one sample.
ToInt16(x, nan_as) ==
  CASE x = "0.0" -> 0
    [] x = "1.0" -> 32767
    [] OTHER -> nan_as

\* int16.tobytes(): two bytes, little-endian, two's complement.
SampleBytes(v) == <<v % 256, (v \div 256) % 256>>

RECURSIVE ToBytes(_, _)
\* byte_data = int_data.tobytes() for a block.
ToBytes(block, nan_as) ==
  IF block = <<>> THEN <<>>
  ELSE SampleBytes(ToInt16(Head(block), nan_as)) \o ToBytes(Tail(block), nan_as)

\* np.isnan(mono_data).any() or np.isinf(mono_data).any()
HasNaN(block) == \E i \in DOMAIN block : block[i] = "nan"

\* vad.is_speech(frame_bytes, SAMPLE_RATE): its answer, or an exception.
Answers == {"speech", "silence", "raise"}

NoObs == [silence_run |-> 0, speech_run |-> 0, from_idle |-> FALSE, utt_starts |-> 0, resumed |-> FALSE]
NoVad == [answer |-> "none", classified |-> FALSE, should_send |-> FALSE,
          put |-> FALSE, enabled |-> TRUE, room |-> TRUE, loop |-> TRUE,
          resumed |-> FALSE]

InitClient ==
  /\ variant \in Variants
  /\ recording_active = TRUE
  /\ loop_running = TRUE
  /\ send_audio_enabled = TRUE
  /\ temp_audio_buffer = <<>>
  /\ speaking = FALSE
  /\ silence_frames_count = 0
  /\ audio_queue = <<>>
  /\ put_pending = <<>>
  /\ in_bytes = <<>>
  /\ carried = FALSE
  /\ out_frames = <<>>
  /\ obs = NoObs
  /\ vad_last = NoVad

(***************************************************************************)
(* Clients: the gate (process_vad).                                        *)
(***************************************************************************)
\* (variant: with the flag off the frame is thrown away before the gate
\* looks at it)
process_vad_Ws_SkipsWhenOff(sp, sc, frame, answer, enabled) ==
  IF Len(frame) # VAD_FRAME_BYTES \/ answer = "raise" \/ ~enabled
  THEN [speaking |-> sp, silence_frames_count |-> sc,
        should_send |-> FALSE, put |-> FALSE]
  ELSE IF answer = "speech"
  THEN [speaking |-> TRUE, silence_frames_count |-> 0,
        should_send |-> TRUE, put |-> TRUE]
  ELSE IF sp
  THEN IF sc + 1 > SILENCE_FRAMES_THRESHOLD
       THEN [speaking |-> FALSE, silence_frames_count |-> sc + 1,
             should_send |-> FALSE, put |-> FALSE]
       ELSE [speaking |-> sp, silence_frames_count |-> sc + 1,
             should_send |-> TRUE, put |-> TRUE]
  ELSE [speaking |-> sp, silence_frames_count |-> sc,
        should_send |-> FALSE, put |-> FALSE]

\* (variant: silence is counted whether an utterance is open or not)
process_vad_Ws_CountsIdle(sp, sc, frame, answer, enabled) ==
  IF Len(frame) # VAD_FRAME_BYTES \/ answer = "raise"
  THEN [speaking |-> sp, silence_frames_count |-> sc,
        should_send |-> FALSE, put |-> FALSE]
  ELSE IF answer = "speech"
  THEN [speaking |-> TRUE, silence_frames_count |-> 0,
        should_send |-> TRUE, put |-> enabled]
  ELSE IF sc + 1 > SILENCE_FRAMES_THRESHOLD
       THEN [speaking |-> FALSE, silence_frames_count |-> sc + 1,
             should_send |-> FALSE, put |-> FALSE]
       ELSE [speaking |-> sp, silence_frames_count |-> sc + 1,
             should_send |-> sp, put |-> sp /\ enabled]

\* (variant: a frame the VAD fails on counts as silence)
process_vad_Ws_RaiseIsSilence(sp, sc, frame, answer, enabled) ==
  IF Len(frame) # VAD_FRAME_BYTES
  THEN [speaking |-> sp, silence_frames_count |-> sc,
        should_send |-> FALSE, put |-> FALSE]
  ELSE IF answer = "speech"
  THEN [speaking |-> TRUE, silence_frames_count |-> 0,
        should_send |-> TRUE, put |-> enabled]
  ELSE IF sp
  THEN IF sc + 1 > SILENCE_FRAMES_THRESHOLD
       THEN [speaking |-> FALSE, silence_frames_count |-> sc + 1,
             should_send |-> FALSE, put |-> FALSE]
       ELSE [speaking |-> sp, silence_frames_count |-> sc + 1,
             should_send |-> TRUE, put |-> enabled]
  ELSE [speaking |-> sp, silence_frames_count |-> sc,
        should_send |-> FALSE, put |-> FALSE]

\* (variant: the length of the frame is not looked at)
process_vad_Ws_AnyLength(sp, sc, frame, answer, enabled) ==
  IF answer = "raise"
  THEN [speaking |-> sp, silence_frames_count |-> sc,
        should_send |-> FALSE, put |-> FALSE]
  ELSE IF answer = "speech"
  THEN [speaking |-> TRUE, silence_frames_count |-> 0,
        should_send |-> TRUE, put |-> enabled]
  ELSE IF sp
  THEN IF sc + 1 > SILENCE_FRAMES_THRESHOLD
       THEN [speaking |-> FALSE, silence_frames_count |-> sc + 1,
             should_send |-> FALSE, put |-> FALSE]
       ELSE [speaking |-> sp, silence_frames_count |-> sc + 1,
             should_send |-> TRUE, put |-> enabled]
  ELSE [speaking |-> sp, silence_frames_count |-> sc,
        should_send |-> FALSE, put |-> FALSE]

\* Client-Ws.py process_vad(frame_bytes): sp, sc the globals speaking and
\* silence_frames_count, answer what vad.is_speech gives, enabled the value
\* of send_audio_enabled.  put: audio_queue.put_nowait(frame_bytes) is called
\* (the queue has no maxsize, so the frame is stored).
process_vad_Ws(sp, sc, frame, answer, enabled) ==
  IF Len(frame) # VAD_FRAME_BYTES
  THEN [speaking |-> sp, silence_frames_count |-> sc,
        should_send |-> FALSE, put |-> FALSE]
  ELSE IF answer = "raise"
  THEN [speaking |-> sp, silence_frames_count |-> sc,
        should_send |-> FALSE, put |-> FALSE]
  ELSE IF answer = "speech"
  THEN [speaking |-> TRUE, silence_frames_count |-> 0,
        should_send |-> TRUE, put |-> enabled]
  ELSE IF sp
  THEN IF sc + 1 > SILENCE_FRAMES_THRESHOLD
       THEN [speaking |-> FALSE, silence_frames_count |-> sc + 1,
             should_send |-> FALSE, put |-> FALSE]
       ELSE [speaking |-> sp, silence_frames_count |-> sc + 1,
             should_send |-> TRUE, put |-> enabled]
  ELSE [speaking |-> sp, silence_frames_count |-> sc,
        should_send |-> FALSE, put |-> FALSE]

\* (variant: the silence after speech is cut at the threshold, not past it)
process_vad_Desktop_CutsEarly(sp, sc, frame, answer, enabled, loop, qsize) ==
  LET gate ==
        IF Len(frame) # VAD_FRAME_BYTES \/ answer = "raise"
        THEN [speaking |-> sp, silence_frames_count |-> sc,
              should_send |-> FALSE]
        ELSE IF answer = "speech"
        THEN [speaking |-> TRUE, silence_frames_count |-> 0,
              should_send |-> TRUE]
        ELSE IF sp
        THEN IF sc + 1 >= SILENCE_FRAMES_THRESHOLD
             THEN [speaking |-> FALSE, silence_frames_count |-> sc + 1,
                   should_send |-> FALSE]
             ELSE [speaking |-> sp, silence_frames_count |-> sc + 1,
                   should_send |-> TRUE]
        ELSE [speaking |-> sp, silence_frames_count |-> sc,
              should_send |-> FALSE]
  IN [speaking |-> gate.speaking, silence_frames_count |-> gate.silence_frames_count,
      should_send |-> gate.should_send,
      put |-> (gate.should_send /\ enabled /\ loop /\ qsize < QSIZE_LIMIT)]

\* Client-WS-Desktopaudio.py process_vad(frame_bytes, loop): loop says that
\* the loop is there and running, qsize is audio_queue.qsize().  put:
\* run_coroutine_threadsafe(audio_queue.put(frame_bytes), loop) is called.
process_vad_Desktop(sp, sc, frame, answer, enabled, loop, qsize) ==
  LET gate ==
        IF Len(frame) # VAD_FRAME_BYTES \/ answer = "raise"
        THEN [speaking |-> sp, silence_frames_count |-> sc,
              should_send |-> FALSE]
        ELSE IF answer = "speech"
        THEN [speaking |-> TRUE, silence_frames_count |-> 0,
              should_send |-> TRUE]
        ELSE IF sp
        THEN IF sc + 1 > SILENCE_FRAMES_THRESHOLD
             THEN [speaking |-> FALSE, silence_frames_count |-> sc + 1,
                   should_send |-> FALSE]
             ELSE [speaking |-> sp, silence_frames_count |-> sc + 1,
                   should_send |-> TRUE]
        ELSE [speaking |-> sp, silence_frames_count |-> sc,
              should_send |-> FALSE]
  IN [speaking |-> gate.speaking, silence_frames_count |-> gate.silence_frames_count,
      should_send |-> gate.should_send,
      put |-> (gate.should_send /\ enabled /\ loop /\ qsize < QSIZE_LIMIT)]

\* process_vad of the client that runs.
process_vad(v, sp, sc, frame, answer, enabled, loop, qsize) ==
  IF v = "Ws" THEN process_vad_Ws(sp, sc, frame, answer, enabled)
  ELSE process_vad_Desktop(sp, sc, frame, answer, enabled, loop, qsize)

CapAt(n, cap) == IF n > cap THEN cap ELSE n

\* What an observer of the gate counts for a frame with this answer: the
\* run of silence frames since the last speech frame, the run of speech
\* frames before it and whether that run began with speaking false, how often
\* speaking went from false to true in the utterance (which is over once the
\* silence run has passed the threshold), and whether the flag came back on
\* in the utterance with no frame forwarded since.
Observe(o, answer, sp, sp2, should_send) ==
  LET open == o.speech_run > 0 /\ o.silence_run <= SILENCE_FRAMES_THRESHOLD
      fresh == o.speech_run = 0 \/ o.silence_run > 0
      rise == IF ~sp /\ sp2 THEN 1 ELSE 0
  IN IF answer = "speech"
     THEN [silence_run |-> 0,
           speech_run |-> CapAt((IF fresh THEN 0 ELSE o.speech_run) + 1, 2),
           from_idle |-> IF fresh THEN ~sp ELSE o.from_idle,
           utt_starts |-> CapAt((IF open THEN o.utt_starts ELSE 0) + rise, 2),
           resumed |-> o.resumed /\ ~should_send /\ sp2]
     ELSE [silence_run |-> CapAt(o.silence_run + 1, SILENCE_FRAMES_THRESHOLD + 2),
           speech_run |-> o.speech_run,
           from_idle |-> o.from_idle,
           utt_starts |-> CapAt(o.utt_starts + rise, 2),
           resumed |-> o.resumed /\ ~should_send /\ sp2]

\* One call of process_vad on the pipeline state g, with what it does to the
\* queue: the frame is stored (Ws) or its put is handed to the loop (Desktop).
VadStep(v, g, frame, answer, enabled, loop) ==
  LET r == process_vad(v, g.speaking, g.silence_frames_count, frame, answer,
                       enabled, loop, Len(g.audio_queue))
      classified == Len(frame) = VAD_FRAME_BYTES /\ answer # "raise"
  IN [speaking |-> r.speaking,
      silence_frames_count |-> r.silence_frames_count,
      audio_queue |-> IF v = "Ws" /\ r.put THEN Append(g.audio_queue, frame)
                      ELSE g.audio_queue,
      put_pending |-> IF v = "Desktop" /\ r.put THEN Append(g.put_pending, frame)
                      ELSE g.put_pending,
      out_frames |-> g.out_frames,
      obs |-> IF classified
              THEN Observe(g.obs, answer, g.speaking, r.speaking, r.should_send)
              ELSE g.obs,
      vad_last |-> [answer |-> answer, classified |-> classified,
                    should_send |-> r.should_send, put |-> r.put,
                    enabled |-> enabled,
                    room |-> Len(g.audio_queue) < QSIZE_LIMIT, loop |-> loop,
                    resumed |-> g.obs.resumed /\ r.should_send]]

Pipeline ==
  [speaking |-> speaking, silence_frames_count |-> silence_frames_count,
   audio_queue |-> audio_queue, put_pending |-> put_pending,
   out_frames |-> out_frames, obs |-> obs, vad_last |-> vad_last]

SetPipeline(g) ==
  /\ speaking' = g.speaking
  /\ silence_frames_count' = g.silence_frames_count
  /\ audio_queue' = g.audio_queue
  /\ put_pending' = g.put_pending
  /\ out_frames' = g.out_frames
  /\ obs' = g.obs
  /\ vad_last' = g.vad_last

(***************************************************************************)
(* Clients: the segmenting loop and the capture callback.                  *)
(***************************************************************************)
\* (variant: a buffer holding exactly one frame is left for the next block)
HasFrame_Strict(buf) == Len(buf) > VAD_FRAME_BYTES

\* (variant: the loop runs only while the buffer holds two frames)
HasFrame_TwoFrames(buf) == Len(buf) >= 2 * VAD_FRAME_BYTES

\* while len(temp_audio_buffer) >= VAD_FRAME_BYTES
HasFrame(buf) == Len(buf) >= VAD_FRAME_BYTES

\* The while loop over temp_audio_buffer: the first VAD_FRAME_BYTES bytes go
\* to process_vad and are deleted from the buffer.  answers are the answers
\* of vad.is_speech to the frames in turn.
RECURSIVE SegmentLoop(_, _, _, _, _, _)
SegmentLoop(v, buf, g, answers, enabled, loop) ==
  IF HasFrame(buf) /\ answers # <<>>
  THEN LET vad_frame == SubSeq(buf, 1, VAD_FRAME_BYTES)
           g2 == VadStep(v, g, vad_frame, Head(answers), enabled, loop)
       IN SegmentLoop(v, SubSeq(buf, VAD_FRAME_BYTES + 1, Len(buf)),
                      [g2 EXCEPT !.out_frames = Append(@, vad_frame)],
                      Tail(answers), enabled, loop)
  ELSE [buf |-> buf, g |-> g]

\* A block of samples arrives: audio_callback(indata, ...) of Client-Ws.py,
\* one pass of the while recording_active loop of audio_capture_thread in
\* Client-WS-Desktopaudio.py.  The desktop client skips a block holding a
\* NaN; the other casts it, and the cast of a NaN to int16 is whatever the
\* build makes of it (nan_as).
AudioBlock(block, nan_as) ==
  /\ recording_active
  /\ HasNaN(block) \/ nan_as = 0
  /\ IF variant = "Desktop" /\ HasNaN(block)
     THEN UNCHANGED <<temp_audio_buffer, speaking, silence_frames_count,
                      audio_queue, put_pending, in_bytes, out_frames, carried, obs, vad_last>>
     ELSE LET byte_data == ToBytes(block, nan_as)
              buf == temp_audio_buffer \o byte_data
              n == Len(buf) \div VAD_FRAME_BYTES
          IN /\ Len(in_bytes) + Len(byte_data) <= MaxInputSamples * BYTES_PER_SAMPLE
             /\ Len(audio_queue) + n <= MaxQueue
             /\ Len(put_pending) + n <= MaxQueue
             /\ \E answers \in [1..n -> Answers] :
                  LET res == SegmentLoop(variant, buf, Pipeline, answers,
                                         send_audio_enabled, loop_running)
                  IN /\ temp_audio_buffer' = res.buf
                     /\ SetPipeline(res.g)
             /\ in_bytes' = in_bytes \o byte_data
             /\ carried' = (carried \/ temp_audio_buffer # <<>>)
  /\ UNCHANGED <<variant, recording_active, loop_running, send_audio_enabled>>
  /\ UNCHANGED <<serverVars, sessionVars>>

\* A frame of the right size, as the segmenting loop cuts it.
FullFrame == ToBytes([i \in 1..VAD_FRAME_SAMPLES |-> "1.0"], 0)

\* process_vad is called on one frame.
ProcessVad(answer) ==
  /\ recording_active
  /\ Len(audio_queue) < MaxQueue
  /\ Len(put_pending) < MaxQueue
  /\ SetPipeline(VadStep(variant, Pipeline, FullFrame, answer,
                         send_audio_enabled, loop_running))
  /\ UNCHANGED <<variant, recording_active, loop_running, send_audio_enabled,
                 temp_audio_buffer, in_bytes, carried>>
  /\ UNCHANGED <<serverVars, sessionVars>>

\* Frames of any length: none, a byte short, a frame, a byte long.
FramesOfAnyLength ==
  {<<>>, SubSeq(FullFrame, 1, VAD_FRAME_BYTES - 1), FullFrame, FullFrame \o <<0>>}

\* process_vad is called on a frame of any length.
ProcessVadAnyLength(frame, answer) ==
  /\ recording_active
  /\ Len(audio_queue) < MaxQueue
  /\ Len(put_pending) < MaxQueue
  /\ SetPipeline(VadStep(variant, Pipeline, frame, answer,
                         send_audio_enabled, loop_running))
  /\ UNCHANGED <<variant, recording_active, loop_running, send_audio_enabled,
                 temp_audio_buffer, in_bytes, carried>>
  /\ UNCHANGED <<serverVars, sessionVars>>

Keys_Pressed == {"space", "other"}
TOGGLE_KEY == "space"

\* (variant: every key flips the flag)
OnPress_AnyKey(key) ==
  /\ send_audio_enabled' = ~send_audio_enabled
  /\ obs' = [obs EXCEPT !.resumed = ~send_audio_enabled /\ speaking]
  /\ UNCHANGED <<variant, recording_active, loop_running, temp_audio_buffer,
                 speaking, silence_frames_count, audio_queue, put_pending,
                 in_bytes, out_frames, carried, vad_last>>
  /\ UNCHANGED <<serverVars, sessionVars>>

\* on_press(key): the toggle key flips send_audio_enabled.
OnPress(key) ==
  /\ send_audio_enabled' = IF key = TOGGLE_KEY THEN ~send_audio_enabled
                           ELSE send_audio_enabled
  /\ obs' = [obs EXCEPT !.resumed = IF key = TOGGLE_KEY
                                    THEN ~send_audio_enabled /\ speaking
                                    ELSE @]
  /\ UNCHANGED <<variant, recording_active, loop_running, temp_audio_buffer,
                 speaking, silence_frames_count, audio_queue, put_pending,
                 in_bytes, out_frames, carried, vad_last>>
  /\ UNCHANGED <<serverVars, sessionVars>>

\* The loop runs a put that run_coroutine_threadsafe handed to it.
LoopRunsPut ==
  /\ variant = "Desktop"
  /\ loop_running
  /\ put_pending # <<>>
  /\ Len(audio_queue) < MaxQueue
  /\ audio_queue' = Append(audio_queue, Head(put_pending))
  /\ put_pending' = Tail(put_pending)
  /\ UNCHANGED <<variant, recording_active, loop_running, send_audio_enabled,
                 temp_audio_buffer, speaking, silence_frames_count,
                 in_bytes, out_frames, carried, obs, vad_last>>
  /\ UNCHANGED <<serverVars, sessionVars>>

\* send_task: byte_data = await audio_queue.get()
SendTaskGet ==
  /\ loop_running
  /\ audio_queue # <<>>
  /\ audio_queue' = Tail(audio_queue)
  /\ UNCHANGED <<variant, recording_active, loop_running, send_audio_enabled,
                 temp_audio_buffer, speaking, silence_frames_count, put_pending,
                 in_bytes, out_frames, carried, obs, vad_last>>
  /\ UNCHANGED <<serverVars, sessionVars>>

\* run_stt_client: recording_active = False once a task has finished.
Shutdown ==
  /\ recording_active
  /\ recording_active' = FALSE
  /\ UNCHANGED <<variant, loop_running, send_audio_enabled,
                 temp_audio_buffer, speaking, silence_frames_count, audio_queue,
                 put_pending, in_bytes, out_frames, carried, obs, vad_last>>
  /\ UNCHANGED <<serverVars, sessionVars>>

\* asyncio.run returns: the loop no longer runs.  run_stt_client has set
\* recording_active to False on its way out.
LoopStops ==
  /\ ~recording_active
  /\ loop_running
  /\ loop_running' = FALSE
  /\ UNCHANGED <<variant, recording_active, send_audio_enabled,
                 temp_audio_buffer, speaking, silence_frames_count, audio_queue,
                 put_pending, in_bytes, out_frames, carried, obs, vad_last>>
  /\ UNCHANGED <<serverVars, sessionVars>>

\* The session once run_stt_client is connected: the stream (or the capture
\* thread) runs, receive_task and send_task are created, run_stt_client is
\* in asyncio.wait.
NoMessage == [shape |-> "none", has |-> {}, text |-> <<>>]

InitSession ==
  /\ session = [main |-> "wait", sender |-> "get", send_end |-> "none",
                receiver |-> "reading", recv_end |-> "none",
                capture |-> "running", socket |-> "open",
                listener |-> "running", peer |-> "up"]
  /\ trace = [events |-> <<>>, enqueued |-> <<>>, dequeued |-> <<>>,
              sent |-> <<>>, sent_after_failure |-> FALSE]
  /\ term = [line |-> <<>>, done |-> <<>>]
  /\ rx_last = NoMessage

\* The half of the system a specification does not move.
ServerAtRest ==
  /\ InitServer
  /\ lang_code = [s \in Conns |-> "en"]

ClientAtRest ==
  /\ InitClient
  /\ variant = "Ws"

NextCapture ==
  \/ \E block \in Blocks, nan_as \in NanCasts : AudioBlock(block, nan_as)
  \/ \E key \in Keys_Pressed : OnPress(key)
  \/ LoopRunsPut
  \/ SendTaskGet
  \/ Shutdown
  \/ LoopStops

NextGate ==
  \/ \E answer \in Answers : ProcessVad(answer)
  \/ \E key \in Keys_Pressed : OnPress(key)
  \/ LoopRunsPut
  \/ SendTaskGet
  \/ Shutdown
  \/ LoopStops

\* process_vad as a function of its frame: frames of any length.
NextVad ==
  \/ \E frame \in FramesOfAnyLength, answer \in Answers :
       ProcessVadAnyLength(frame, answer)
  \/ \E key \in Keys_Pressed : OnPress(key)
  \/ LoopRunsPut
  \/ SendTaskGet

\* A session server alone, the clients at rest.
InitServerOnly == InitServer /\ ClientAtRest /\ InitSession

SpecServer == InitServerOnly /\ [][NextServer]_vars

\* A client alone, the server at rest.
InitClientOnly == ServerAtRest /\ InitClient /\ InitSession

SpecCapture == InitClientOnly /\ [][NextCapture]_vars

SpecGate == InitClientOnly /\ [][NextGate]_vars

SpecVad == InitClientOnly /\ [][NextVad]_vars

(***************************************************************************)
(* Clients: receive_task and the terminal.                                 *)
(***************************************************************************)
\* ' ' * 10 after a partial, ' ' * 80 before a final.
PARTIAL_PAD == 10
CLEAR_WIDTH == 80

RECURSIVE Rep(_, _)
Rep(c, n) == IF n = 0 THEN <<>> ELSE <<c>> \o Rep(c, n - 1)

\* "Partial: "
PartialPrefix == <<"P", "a", "r", "t", "i", "a", "l", ":", " ">>
\* "Final  : " in Client-Ws.py, "> " and " <" in Client-WS-Desktopaudio.py
FinalPrefix(v) ==
  IF v = "Ws" THEN <<"F", "i", "n", "a", "l", " ", " ", ":", " ">>
  ELSE <<">", " ">>
FinalSuffix(v) == IF v = "Ws" THEN <<>> ELSE <<" ", "<">>

\* The texts a message carries.
TextLens == {1, 12, 72}
Texts_Sent == {Rep(c, n) : c \in {"a", "b"}, n \in TextLens}

\* An inbound message: what json.loads makes of it (or that it fails), and
\* which of "partial" and "text" the operator `in` finds in it: keys of an
\* object, items of a list, substrings of a string.
Messages ==
  [shape : {"object"}, has : SUBSET {"partial", "text"}, text : Texts_Sent]
  \cup [shape : {"string", "list"}, has : SUBSET {"partial", "text"}, text : {<<>>}]
  \cup [shape : {"number", "null", "invalid"}, has : {{}}, text : {<<>>}]

\* print(s, end='') with the cursor in column 0: s covers what the line held.
Overwrite(line, s) ==
  IF Len(s) >= Len(line) THEN s ELSE s \o SubSeq(line, Len(s) + 1, Len(line))

\* What receive_task does with a message: "partial", "final", "other" (the
\* message is printed as it is), "raw" (json.JSONDecodeError) or "raise": the
\* TypeError of `"partial" in result` on a number or None, or of
\* result['partial'] on a string or a list, which no clause inside the loop
\* catches.
Handling(msg) ==
  CASE msg.shape = "invalid" -> "raw"
    [] msg.shape \in {"number", "null"} -> "raise"
    [] msg.shape = "object" ->
         IF "partial" \in msg.has THEN "partial"
         ELSE IF "text" \in msg.has THEN "final" ELSE "other"
    [] OTHER -> IF msg.has = {} THEN "other" ELSE "raise"

\* The terminal after the prints of one message.
Printed(v, tm, msg) ==
  LET h == Handling(msg)
  IN CASE h = "partial" ->
            [line |-> Overwrite(tm.line, PartialPrefix \o msg.text \o Rep(" ", PARTIAL_PAD)),
             done |-> tm.done]
       [] h = "final" ->
            [line |-> <<>>,
             done |-> Overwrite(Overwrite(tm.line, Rep(" ", CLEAR_WIDTH)),
                                FinalPrefix(v) \o msg.text \o FinalSuffix(v))]
       [] h \in {"other", "raw"} ->
            [line |-> <<>>, done |-> <<"S", "e", "r", "v", "e", "r">>]
       [] OTHER -> tm

\* async for message in websocket: one message is taken and handled.
ReceiveMessage(msg) ==
  /\ session.receiver = "reading"
  /\ session.peer = "up"
  /\ term' = Printed(variant, term, msg)
  /\ rx_last' = msg
  /\ session' = IF Handling(msg) = "raise"
                THEN [session EXCEPT !.receiver = "done", !.recv_end = "error"]
                ELSE session
  /\ UNCHANGED <<serverVars, clientVars, trace>>

\* The server closes the connection, with a close frame or without.
PeerCloses(how) ==
  /\ session.peer = "up"
  /\ session.socket = "open"
  /\ session' = [session EXCEPT !.peer = how]
  /\ UNCHANGED <<serverVars, clientVars, trace, term, rx_last>>

\* The iteration over the websocket ends: ConnectionClosedOK or
\* ConnectionClosedError is caught and the task finishes.
ReceiverSeesClose ==
  /\ session.receiver = "reading"
  /\ session.peer # "up" \/ session.socket = "closed"
  /\ session' = [session EXCEPT !.receiver = "done",
                   !.recv_end = IF session.peer = "closed_error"
                                THEN "closed_error" ELSE "closed_ok"]
  /\ UNCHANGED <<serverVars, clientVars, trace, term, rx_last>>

\* Connected, as long as both tasks run and run_stt_client waits for them.
Connected ==
  /\ session.main = "wait"
  /\ session.receiver # "done"
  /\ session.sender # "done"

NextReceive ==
  \/ \E msg \in Messages : ReceiveMessage(msg)
  \/ \E how \in {"closed_ok", "closed_error"} : PeerCloses(how)
  \/ ReceiverSeesClose

SpecReceive == InitClientOnly /\ [][NextReceive]_vars

\* Spaces at the end of a line do not show.
RECURSIVE Shown(_)
Shown(line) ==
  IF line # <<>> /\ line[Len(line)] = " "
  THEN Shown(SubSeq(line, 1, Len(line) - 1)) ELSE line

\* C16 as stated: after a partial the terminal shows the partial just
\* received and nothing else on the line; after a final it shows the final
\* as a line of its own and the line under the cursor is empty.
C16_DisplayFollowsMessages ==
  /\ Handling(rx_last) = "partial" =>
       Shown(term.line) = PartialPrefix \o rx_last.text
  /\ Handling(rx_last) = "final" =>
       /\ Shown(term.done) = Shown(FinalPrefix(variant) \o rx_last.text \o FinalSuffix(variant))
       /\ term.line = <<>>

\* C17 as stated: a message that is no result message (invalid JSON, or
\* JSON that is no object with a partial or a text key) leaves receive_task
\* reading and the client connected.
C17_MalformedIgnored ==
  (rx_last.shape # "none" /\ Handling(rx_last) \notin {"partial", "final"}) =>
    (session.receiver = "reading" /\ Connected)

(***************************************************************************)
(* Clients: run_stt_client, send_task and the shutdown.                    *)
(***************************************************************************)
\* Frames process_vad sees during one session.
MaxFrames == 2

\* The stop signal on the queue: None.
None == <<-1>>

\* Two frames that differ.
QuietFrame == ToBytes([i \in 1..VAD_FRAME_SAMPLES |-> "0.0"], 0)
SessionFrames == {FullFrame, QuietFrame}

\* The events of a shutdown, in the order the clients are meant to keep.
ShutdownOrder == <<"capture_stopped", "sentinel_placed", "sender_finished",
                   "receiver_cancelled", "socket_closed", "listener_stopped">>

Happened(tr, e) == \E i \in DOMAIN tr.events : tr.events[i] = e

\* The observer notes an event the first time it happens.
Log(tr, e) == IF Happened(tr, e) THEN tr ELSE [tr EXCEPT !.events = Append(@, e)]

RECURSIVE LogAll(_, _)
LogAll(tr, es) == IF es = <<>> THEN tr ELSE LogAll(Log(tr, Head(es)), Tail(es))

\* (variant: the item put last is taken first)
QueueGet_Lifo(q) == [item |-> q[Len(q)], rest |-> SubSeq(q, 1, Len(q) - 1)]

\* audio_queue.get(): the item put first.
QueueGet(q) == [item |-> Head(q), rest |-> Tail(q)]

\* (variant: the stop signal is put ahead of what is queued)
StopSignal_First(q) == <<None>> \o q

\* (variant: nothing is put on the queue at shutdown)
StopSignal_Never(q) == q

\* audio_queue.put(None) / audio_queue.put_nowait(None)
StopSignal(q) == Append(q, None)

\* The capture hands a frame to process_vad while the session runs.
SessionFrame(frame, answer) ==
  /\ session.capture = "running"
  /\ recording_active
  /\ Len(out_frames) < MaxFrames
  /\ LET g == VadStep(variant, Pipeline, frame, answer, send_audio_enabled, loop_running)
     IN /\ SetPipeline([g EXCEPT !.out_frames = Append(@, frame)])
        /\ trace' = IF Len(g.audio_queue) > Len(audio_queue)
                    THEN [trace EXCEPT !.enqueued = Append(@, frame)]
                    ELSE trace
  /\ UNCHANGED <<variant, recording_active, loop_running, send_audio_enabled,
                 temp_audio_buffer, in_bytes, carried>>
  /\ UNCHANGED <<serverVars, session, term, rx_last>>

\* audio_capture_thread of the desktop client: the recorder raises, the
\* except clauses set recording_active to False and the thread ends.
CaptureFails ==
  /\ variant = "Desktop"
  /\ session.capture = "running"
  /\ session' = [session EXCEPT !.capture = "failed"]
  /\ recording_active' = FALSE
  /\ UNCHANGED <<variant, loop_running, send_audio_enabled, temp_audio_buffer,
                 speaking, silence_frames_count, audio_queue, put_pending,
                 in_bytes, out_frames, carried, obs, vad_last>>
  /\ UNCHANGED <<serverVars, trace, term, rx_last>>

\* The loop of the desktop client runs a put handed to it by
\* run_coroutine_threadsafe.
SessionLoopPut ==
  /\ variant = "Desktop"
  /\ session.main # "done"
  /\ put_pending # <<>>
  /\ audio_queue' = Append(audio_queue, Head(put_pending))
  /\ put_pending' = Tail(put_pending)
  /\ trace' = LET tr == [trace EXCEPT !.enqueued = Append(@, Head(put_pending))]
              IN IF Head(put_pending) = None THEN Log(tr, "sentinel_placed") ELSE tr
  /\ UNCHANGED <<variant, recording_active, loop_running, send_audio_enabled,
                 temp_audio_buffer, speaking, silence_frames_count,
                 in_bytes, out_frames, carried, obs, vad_last>>
  /\ UNCHANGED <<serverVars, session, term, rx_last>>

\* send_task leaves its loop.  The desktop client then closes the websocket
\* in its finally clause if it is not closed yet, and finishes after that.
SenderLeaves(ss, how) ==
  IF variant = "Desktop" /\ ss.socket = "open" /\ ss.peer = "up"
  THEN [ss EXCEPT !.sender = "closing", !.send_end = how]
  ELSE [ss EXCEPT !.sender = "done", !.send_end = how]

SenderLeft(ss, tr) == IF ss.sender = "done" THEN Log(tr, "sender_finished") ELSE tr

\* send_task: one item is taken from the queue and dealt with, up to the next
\* audio_queue.get().
SenderStep ==
  /\ session.sender = "get"
  /\ audio_queue # <<>>
  /\ LET got == QueueGet(audio_queue)
         tr == [trace EXCEPT !.dequeued = Append(@, got.item)]
         raises == session.peer # "up" \/ session.socket = "closed"
     IN /\ audio_queue' = got.rest
        /\ IF got.item = None
           THEN /\ session' = SenderLeaves(session, "sentinel")
                /\ trace' = SenderLeft(session', tr)
                /\ UNCHANGED recording_active
           ELSE IF recording_active /\ raises
           THEN /\ session' = SenderLeaves(session, "closed")
                /\ trace' = SenderLeft(session', tr)
                /\ recording_active' = FALSE
           ELSE IF variant = "Ws" /\ ~recording_active /\ got.rest = <<>>
           THEN /\ session' = SenderLeaves(session, "loop_exit")
                /\ trace' = SenderLeft(session', tr)
                /\ UNCHANGED recording_active
           ELSE /\ trace' = IF recording_active
                            THEN [tr EXCEPT !.sent = Append(@, got.item),
                                            !.sent_after_failure =
                                               @ \/ session.capture = "failed"]
                            ELSE tr
                /\ UNCHANGED <<session, recording_active>>
  /\ UNCHANGED <<variant, loop_running, send_audio_enabled, temp_audio_buffer,
                 speaking, silence_frames_count, put_pending,
                 in_bytes, out_frames, carried, obs, vad_last>>
  /\ UNCHANGED <<serverVars, term, rx_last>>

\* The CancelledError reaches send_task.
SenderCancelled ==
  /\ session.sender = "cancelling"
  /\ session' = SenderLeaves(session, "cancelled")
  /\ trace' = SenderLeft(session', trace)
  /\ UNCHANGED <<serverVars, clientVars, term, rx_last>>

\* send_task of the desktop client, finally: await websocket.close(...).
SenderCloses ==
  /\ session.sender = "closing"
  /\ session' = [session EXCEPT !.sender = "done", !.socket = "closed"]
  /\ trace' = LogAll(trace, <<"socket_closed", "sender_finished">>)
  /\ UNCHANGED <<serverVars, clientVars, term, rx_last>>

\* The CancelledError reaches receive_task.
ReceiverCancelled ==
  /\ session.receiver = "cancelling"
  /\ session' = [session EXCEPT !.receiver = "done", !.recv_end = "cancelled"]
  /\ trace' = Log(trace, "receiver_cancelled")
  /\ UNCHANGED <<serverVars, clientVars, term, rx_last>>

Cancel(pc) == IF pc = "done" THEN "done" ELSE "cancelling"

\* run_stt_client of the microphone client after asyncio.wait returns:
\* recording_active is cleared, the stream is stopped and closed, the stop
\* signal is put on the queue, and the sender is awaited.
WsShutdownStarts ==
  /\ variant = "Ws"
  /\ session.main = "wait"
  /\ session.receiver = "done" \/ session.sender = "done"
  /\ recording_active' = FALSE
  /\ audio_queue' = StopSignal(audio_queue)
  /\ session' = [session EXCEPT !.main = "await_sender", !.capture = "stopped"]
  /\ trace' = LET tr == Log(trace, "capture_stopped")
              IN IF audio_queue' = audio_queue THEN tr
                 ELSE Log([tr EXCEPT !.enqueued = Append(@, None)], "sentinel_placed")
  /\ UNCHANGED <<variant, loop_running, send_audio_enabled, temp_audio_buffer,
                 speaking, silence_frames_count, put_pending,
                 in_bytes, out_frames, carried, obs, vad_last>>
  /\ UNCHANGED <<serverVars, term, rx_last>>

\* await sender has returned: the receiver is cancelled if it still runs.
WsCancelsReceiver ==
  /\ variant = "Ws"
  /\ session.main = "await_sender"
  /\ session.sender = "done"
  /\ session' = [session EXCEPT !.main = "await_receiver",
                                !.receiver = Cancel(session.receiver)]
  /\ UNCHANGED <<serverVars, clientVars, trace, term, rx_last>>

\* The async with block is left, which closes the websocket; the finally
\* clause stops the key listener and puts a stop signal on the queue.
WsLeaves ==
  /\ variant = "Ws"
  /\ session.main = "await_receiver"
  /\ session.receiver = "done"
  /\ session' = [session EXCEPT !.main = "done", !.socket = "closed",
                                !.listener = "stopped"]
  /\ audio_queue' = StopSignal(audio_queue)
  /\ trace' = LET tr == LogAll(trace, <<"socket_closed", "listener_stopped">>)
              IN IF audio_queue' = audio_queue THEN tr
                 ELSE Log([tr EXCEPT !.enqueued = Append(@, None)], "sentinel_placed")
  /\ UNCHANGED <<variant, recording_active, loop_running, send_audio_enabled,
                 temp_audio_buffer, speaking, silence_frames_count, put_pending,
                 in_bytes, out_frames, carried, obs, vad_last>>
  /\ UNCHANGED <<serverVars, term, rx_last>>

\* Ctrl+C reaches the microphone client while it waits for its tasks: the
\* async with block closes the websocket, no except clause matches, and the
\* finally clause stops the stream and the key listener and puts the stop
\* signal on the queue.
WsInterrupt ==
  /\ variant = "Ws"
  /\ session.main = "wait"
  /\ session' = [session EXCEPT !.main = "done", !.socket = "closed",
                                !.capture = "stopped", !.listener = "stopped"]
  /\ audio_queue' = StopSignal(audio_queue)
  /\ trace' = LET tr == LogAll(trace, <<"socket_closed", "capture_stopped",
                                        "listener_stopped">>)
              IN IF audio_queue' = audio_queue THEN tr
                 ELSE Log([tr EXCEPT !.enqueued = Append(@, None)], "sentinel_placed")
  /\ UNCHANGED <<variant, recording_active, loop_running, send_audio_enabled,
                 temp_audio_buffer, speaking, silence_frames_count, put_pending,
                 in_bytes, out_frames, carried, obs, vad_last>>
  /\ UNCHANGED <<serverVars, term, rx_last>>

\* asyncio.run cancels the tasks that still run once run_stt_client is over.
RunCancelsTasks ==
  /\ session.main = "done"
  /\ session.sender = "get" \/ session.receiver = "reading"
  /\ session' = [session EXCEPT
                   !.sender = IF @ = "get" THEN "cancelling" ELSE @,
                   !.receiver = IF @ = "reading" THEN "cancelling" ELSE @]
  /\ UNCHANGED <<serverVars, clientVars, trace, term, rx_last>>

\* The finally clause of the desktop client up to the gather: recording_active
\* is cleared, the capture thread is joined, the put of the stop signal is
\* handed to the loop, and every other task is cancelled.
DesktopCleanup ==
  /\ recording_active' = FALSE
  /\ put_pending' = StopSignal(put_pending)
  /\ session' = [session EXCEPT !.main = "gather", !.capture = "stopped",
                                !.sender = IF @ = "get" THEN "cancelling" ELSE @,
                                !.receiver = Cancel(@)]
  /\ trace' = Log(trace, "capture_stopped")
  /\ UNCHANGED <<variant, loop_running, send_audio_enabled, temp_audio_buffer,
                 speaking, silence_frames_count, audio_queue,
                 in_bytes, out_frames, carried, obs, vad_last>>
  /\ UNCHANGED <<serverVars, term, rx_last>>

\* asyncio.wait returns in the desktop client.
DesktopShutdownStarts ==
  /\ variant = "Desktop"
  /\ session.main = "wait"
  /\ session.receiver = "done" \/ session.sender \in {"closing", "done"}
  /\ DesktopCleanup

\* Ctrl+C reaches the desktop client while it waits for its tasks.
DesktopInterrupt ==
  /\ variant = "Desktop"
  /\ session.main = "wait"
  /\ session.receiver # "done" /\ session.sender = "get"
  /\ DesktopCleanup

\* The gather has returned: the websocket is closed if it is not closed yet
\* and the key listener is stopped.
DesktopLeaves ==
  /\ variant = "Desktop"
  /\ session.main = "gather"
  /\ session.sender = "done" /\ session.receiver = "done"
  /\ session' = [session EXCEPT !.main = "done", !.socket = "closed",
                                !.listener = "stopped"]
  /\ trace' = LogAll(trace, IF session.socket = "open" /\ session.peer = "up"
                            THEN <<"socket_closed", "listener_stopped">>
                            ELSE <<"listener_stopped">>)
  /\ UNCHANGED <<serverVars, clientVars, term, rx_last>>

\* The server closes the connection, or the connection is lost.
SessionPeerCloses(how) ==
  /\ session.peer = "up"
  /\ session.socket = "open"
  /\ session' = [session EXCEPT !.peer = how]
  /\ UNCHANGED <<serverVars, clientVars, trace, term, rx_last>>

\* receive_task: the iteration over the websocket ends because the
\* connection is closed, and one of the except clauses or none runs.
SessionReceiverEnds ==
  /\ session.receiver = "reading"
  /\ session.peer # "up" \/ session.socket = "closed"
  /\ session' = [session EXCEPT !.receiver = "done", !.recv_end = "closed"]
  /\ UNCHANGED <<serverVars, clientVars, trace, term, rx_last>>

\* receive_task: a message whose handling raises ends the task.
SessionReceiverRaises ==
  /\ session.receiver = "reading"
  /\ session.peer = "up" /\ session.socket = "open"
  /\ session.main = "wait"
  /\ session' = [session EXCEPT !.receiver = "done", !.recv_end = "raised"]
  /\ UNCHANGED <<serverVars, clientVars, trace, term, rx_last>>

NextSession ==
  \/ \E frame \in SessionFrames, answer \in Answers : SessionFrame(frame, answer)
  \/ CaptureFails
  \/ SessionLoopPut
  \/ SenderStep
  \/ SenderCancelled
  \/ SenderCloses
  \/ ReceiverCancelled
  \/ WsShutdownStarts
  \/ WsCancelsReceiver
  \/ WsLeaves
  \/ WsInterrupt
  \/ RunCancelsTasks
  \/ DesktopShutdownStarts
  \/ DesktopInterrupt
  \/ DesktopLeaves
  \/ \E how \in {"closed_ok", "closed_error"} : SessionPeerCloses(how)
  \/ SessionReceiverEnds
  \/ SessionReceiverRaises

\* The event loop runs every task that is ready and every callback handed
\* to it; the peer, the user and the device are under no obligation.
SessionFairness ==
  /\ WF_vars(SessionLoopPut)
  /\ WF_vars(SenderStep)
  /\ WF_vars(SenderCancelled)
  /\ WF_vars(SenderCloses)
  /\ WF_vars(ReceiverCancelled)
  /\ WF_vars(WsShutdownStarts)
  /\ WF_vars(WsCancelsReceiver)
  /\ WF_vars(WsLeaves)
  /\ WF_vars(RunCancelsTasks)
  /\ WF_vars(DesktopShutdownStarts)
  /\ WF_vars(DesktopLeaves)
  /\ WF_vars(SessionReceiverEnds)

SpecSession == InitClientOnly /\ [][NextSession]_vars /\ SessionFairness

\* The client has exited.
Closed ==
  /\ session.main = "done"
  /\ session.sender = "done"
  /\ session.receiver = "done"
  /\ session.capture # "running"

\* Messages with the shortest text: one of every shape and every set of keys.
ShortMessages == {msg \in Messages : Len(msg.text) <= 1 /\ msg.text # <<"b">>}

\* The key listener next to everything else a connected client does: the
\* capture handing frames to the gate, the queue, send_task and receive_task.
NextKeys ==
  \/ \E key \in Keys_Pressed : OnPress(key)
  \/ \E frame \in SessionFrames, answer \in Answers : SessionFrame(frame, answer)
  \/ SessionLoopPut
  \/ SenderStep
  \/ \E msg \in ShortMessages : ReceiveMessage(msg)

SpecKeys == InitClientOnly /\ [][NextKeys]_vars

(***************************************************************************)
(* Clients: send_task step by step.  `if recording_active:` reads the flag *)
(* and `await websocket.send(byte_data)` writes to the socket after it.    *)
(* Whatever runs on the loop (run_stt_client, the other task, a put handed *)
(* to the loop) waits until send_task awaits; the capture thread of the    *)
(* desktop client and the peer do not.                                     *)
(***************************************************************************)
\* send_task is between two awaits.
LoopBusy == session.sender = "sending"

\* byte_data = await audio_queue.get(), the test for the stop signal and
\* the reading of recording_active.
SenderTakes ==
  /\ session.sender = "get"
  /\ audio_queue # <<>>
  /\ LET got == QueueGet(audio_queue)
         tr == [trace EXCEPT !.dequeued = Append(@, got.item)]
     IN /\ audio_queue' = got.rest
        /\ IF got.item = None
           THEN /\ session' = SenderLeaves(session, "sentinel")
                /\ trace' = SenderLeft(session', tr)
           ELSE IF recording_active
           THEN /\ session' = [session EXCEPT !.sender = "sending"]
                /\ trace' = tr
           ELSE IF variant = "Ws" /\ got.rest = <<>>
           THEN /\ session' = SenderLeaves(session, "loop_exit")
                /\ trace' = SenderLeft(session', tr)
           ELSE /\ trace' = tr
                /\ UNCHANGED session
  /\ UNCHANGED <<variant, recording_active, loop_running, send_audio_enabled,
                 temp_audio_buffer, speaking, silence_frames_count, put_pending,
                 in_bytes, out_frames, carried, obs, vad_last>>
  /\ UNCHANGED <<serverVars, term, rx_last>>

\* await websocket.send(byte_data) with the item taken last: the frame goes
\* out, or the closed connection raises and the except clause clears
\* recording_active.
SenderSends ==
  /\ session.sender = "sending"
  /\ IF session.peer # "up" \/ session.socket = "closed"
     THEN /\ session' = SenderLeaves(session, "closed")
          /\ trace' = SenderLeft(session', trace)
          /\ recording_active' = FALSE
     ELSE /\ session' = [session EXCEPT !.sender = "get"]
          /\ trace' = [trace EXCEPT
                         !.sent = Append(@, trace.dequeued[Len(trace.dequeued)]),
                         !.sent_after_failure = @ \/ session.capture = "failed"]
          /\ UNCHANGED recording_active
  /\ UNCHANGED <<variant, loop_running, send_audio_enabled, temp_audio_buffer,
                 speaking, silence_frames_count, audio_queue, put_pending,
                 in_bytes, out_frames, carried, obs, vad_last>>
  /\ UNCHANGED <<serverVars, term, rx_last>>

\* What the loop runs besides send_task, once send_task awaits.
SendLoopPut == ~LoopBusy /\ SessionLoopPut
SendReceiverEnds == ~LoopBusy /\ SessionReceiverEnds
SendWsShutdownStarts == ~LoopBusy /\ WsShutdownStarts
SendDesktopShutdownStarts == ~LoopBusy /\ DesktopShutdownStarts

NextSend ==
  \/ \E frame \in SessionFrames, answer \in Answers : SessionFrame(frame, answer)
  \/ CaptureFails
  \/ \E how \in {"closed_ok", "closed_error"} : SessionPeerCloses(how)
  \/ SenderTakes
  \/ SenderSends
  \/ SendLoopPut
  \/ SendReceiverEnds
  \/ SendWsShutdownStarts
  \/ SendDesktopShutdownStarts

SpecSend == InitClientOnly /\ [][NextSend]_vars

(***************************************************************************)
(* Clients: run_stt_client up to the connection.  The microphone client    *)
(* creates its stream, connects, and starts the stream once connected; the *)
(* desktop client starts its capture thread and then connects.             *)
(***************************************************************************)
\* run_stt_client has been called: nothing runs yet but the loop.
InitIdle ==
  /\ session = [main |-> "start", sender |-> "unborn", send_end |-> "none",
                receiver |-> "unborn", recv_end |-> "none",
                capture |-> "unborn", socket |-> "none",
                listener |-> "unborn", peer |-> "up"]
  /\ trace = [events |-> <<>>, enqueued |-> <<>>, dequeued |-> <<>>,
              sent |-> <<>>, sent_after_failure |-> FALSE]
  /\ term = [line |-> <<>>, done |-> <<>>]
  /\ rx_last = NoMessage

\* What the capture does while the client connects: capture_thread.start()
\* comes before websockets.connect in the desktop client; sd.InputStream(...)
\* is created before and started after the connection in the other.
CaptureBeforeConnect(v) == IF v = "Desktop" THEN "running" ELSE "created"

\* The key listener is started, the capture is set up, and
\* websockets.connect is awaited.
RunStarts ==
  /\ session.main = "start"
  /\ session' = [session EXCEPT !.main = "connecting", !.listener = "running",
                                !.capture = CaptureBeforeConnect(variant)]
  /\ UNCHANGED <<serverVars, clientVars, trace, term, rx_last>>

\* websockets.connect returns a connection: the microphone client starts its
\* stream; receive_task and send_task are created and waited for.
Connects ==
  /\ session.main = "connecting"
  /\ session' = [session EXCEPT !.main = "wait", !.socket = "open",
                                !.capture = "running",
                                !.sender = "get", !.receiver = "reading"]
  /\ UNCHANGED <<serverVars, clientVars, trace, term, rx_last>>

\* websockets.connect raises: the except clause prints, and the finally
\* clause puts the stop signal; the desktop client clears recording_active
\* and joins its capture thread before.
ConnectFails ==
  /\ session.main = "connecting"
  /\ session' = [session EXCEPT !.main = "failed", !.listener = "stopped",
                                !.capture = IF variant = "Desktop" THEN "stopped" ELSE @]
  /\ recording_active' = (recording_active /\ variant = "Ws")
  /\ audio_queue' = IF variant = "Ws" THEN StopSignal(audio_queue) ELSE audio_queue
  /\ put_pending' = IF variant = "Desktop" THEN StopSignal(put_pending) ELSE put_pending
  /\ trace' = IF audio_queue' = audio_queue THEN trace
              ELSE [trace EXCEPT !.enqueued = Append(@, None)]
  /\ UNCHANGED <<variant, loop_running, send_audio_enabled, temp_audio_buffer,
                 speaking, silence_frames_count,
                 in_bytes, out_frames, carried, obs, vad_last>>
  /\ UNCHANGED <<serverVars, term, rx_last>>

NextConnect ==
  \/ RunStarts
  \/ Connects
  \/ ConnectFails
  \/ \E frame \in SessionFrames, answer \in Answers : SessionFrame(frame, answer)
  \/ \E key \in Keys_Pressed : OnPress(key)
  \/ SessionLoopPut
  \/ SenderStep

InitConnecting == ServerAtRest /\ InitClient /\ InitIdle

SpecConnect == InitConnecting /\ [][NextConnect]_vars

(***************************************************************************)
(* Clients: the hand-off of a frame from the capture to send_task.  The    *)
(* microphone client calls audio_queue.put_nowait in the thread of the     *)
(* sounddevice callback; the desktop client hands audio_queue.put to the   *)
(* loop with run_coroutine_threadsafe.  audio_queue.get() of send_task     *)
(* looks whether the queue is empty, registers a waiter if it is, and      *)
(* sleeps until a put sets the waiter; in the loop's thread nothing comes  *)
(* between the look and the registration, another thread can.              *)
(***************************************************************************)
\* A put wakes the sender that has registered and sleeps.
Wake(pc) == IF pc = "blocked" THEN "woken" ELSE pc

\* The capture hands a frame to process_vad; in the microphone client a
\* frame that passes is put on the queue then and there.
HandoffFrame(frame, answer) ==
  /\ session.capture = "running"
  /\ recording_active
  /\ Len(out_frames) < MaxFrames
  /\ LET g == VadStep(variant, Pipeline, frame, answer, send_audio_enabled, loop_running)
         put == Len(g.audio_queue) > Len(audio_queue)
     IN /\ SetPipeline([g EXCEPT !.out_frames = Append(@, frame)])
        /\ trace' = IF put THEN [trace EXCEPT !.enqueued = Append(@, frame)]
                    ELSE trace
        /\ session' = IF put THEN [session EXCEPT !.sender = Wake(@)]
                      ELSE session
  /\ UNCHANGED <<variant, recording_active, loop_running, send_audio_enabled,
                 temp_audio_buffer, in_bytes, carried>>
  /\ UNCHANGED <<serverVars, term, rx_last>>

\* The loop of the desktop client runs a put handed to it: it runs between
\* the steps of send_task, never inside one.
HandoffLoopPut ==
  /\ variant = "Desktop"
  /\ put_pending # <<>>
  /\ session.sender # "registering"
  /\ audio_queue' = Append(audio_queue, Head(put_pending))
  /\ put_pending' = Tail(put_pending)
  /\ trace' = [trace EXCEPT !.enqueued = Append(@, Head(put_pending))]
  /\ session' = [session EXCEPT !.sender = Wake(@)]
  /\ UNCHANGED <<variant, recording_active, loop_running, send_audio_enabled,
                 temp_audio_buffer, speaking, silence_frames_count,
                 in_bytes, out_frames, carried, obs, vad_last>>
  /\ UNCHANGED <<serverVars, term, rx_last>>

\* send_task calls audio_queue.get(): an item that is there is taken and
\* sent; with the queue empty a waiter is about to be registered.
HandoffGet ==
  /\ session.sender = "get"
  /\ IF audio_queue # <<>>
     THEN LET got == QueueGet(audio_queue)
          IN /\ audio_queue' = got.rest
             /\ trace' = [trace EXCEPT !.dequeued = Append(@, got.item),
                                       !.sent = Append(@, got.item)]
             /\ UNCHANGED session
     ELSE /\ session' = [session EXCEPT !.sender = "registering"]
          /\ UNCHANGED <<audio_queue, trace>>
  /\ UNCHANGED <<variant, recording_active, loop_running, send_audio_enabled,
                 temp_audio_buffer, speaking, silence_frames_count, put_pending,
                 in_bytes, out_frames, carried, obs, vad_last>>
  /\ UNCHANGED <<serverVars, term, rx_last>>

\* The waiter is registered and send_task sleeps on it.
HandoffRegister ==
  /\ session.sender = "registering"
  /\ session' = [session EXCEPT !.sender = "blocked"]
  /\ UNCHANGED <<serverVars, clientVars, trace, term, rx_last>>

\* The waiter was set: send_task looks at the queue again.
HandoffResume ==
  /\ session.sender = "woken"
  /\ session' = [session EXCEPT !.sender = "get"]
  /\ UNCHANGED <<serverVars, clientVars, trace, term, rx_last>>

NextHandoff ==
  \/ \E frame \in SessionFrames, answer \in Answers : HandoffFrame(frame, answer)
  \/ \E key \in Keys_Pressed : OnPress(key)
  \/ HandoffLoopPut
  \/ HandoffGet
  \/ HandoffRegister
  \/ HandoffResume

\* The loop runs send_task whenever it can go on and every put handed to it;
\* the capture is under no obligation to produce a frame.
HandoffFairness ==
  /\ WF_vars(HandoffLoopPut)
  /\ WF_vars(HandoffGet)
  /\ WF_vars(HandoffRegister)
  /\ WF_vars(HandoffResume)

SpecHandoff == InitClientOnly /\ [][NextHandoff]_vars /\ HandoffFairness

(***************************************************************************)
(* Clients: properties of the capture pipeline.                            *)
(***************************************************************************)
RECURSIVE Concat(_)
Concat(frames) ==
  IF frames = <<>> THEN <<>> ELSE Head(frames) \o Concat(Tail(frames))

\* C8: when the chunks appended to the buffer so far add up to a multiple of
\* VAD_FRAME_BYTES, the segmenting loop has cut exactly total/VAD_FRAME_BYTES
\* frames, each of VAD_FRAME_BYTES bytes, their concatenation is the
\* concatenation of the chunks, and the buffer is empty.
C8_SegmenterExactMultiple ==
  Len(in_bytes) % VAD_FRAME_BYTES = 0 =>
    /\ Len(out_frames) = Len(in_bytes) \div VAD_FRAME_BYTES
    /\ \A i \in DOMAIN out_frames : Len(out_frames[i]) = VAD_FRAME_BYTES
    /\ Concat(out_frames) = in_bytes
    /\ temp_audio_buffer = <<>>

\* Chunks adding up to two frames have gone through the loop, one of them
\* ending inside a frame, and their bytes are not all alike, so the order of
\* the bytes shows.
C8_Witness ==
  /\ Len(in_bytes) = 2 * VAD_FRAME_BYTES
  /\ carried
  /\ Len(in_bytes) % VAD_FRAME_BYTES = 0
  /\ Len(out_frames) = Len(in_bytes) \div VAD_FRAME_BYTES
  /\ out_frames[1] # out_frames[2]
  /\ temp_audio_buffer = <<>>

\* C9: in a run speech, speech, silence x k that began with speaking false,
\* process_vad forwards the speech frames and every silence frame up to the
\* SILENCE_FRAMES_THRESHOLD-th, with speaking true; the silence frame after
\* that is dropped and speaking is false.
C9_GateHysteresis ==
  /\ (vad_last.classified /\ vad_last.answer = "speech" /\ obs.from_idle)
       => vad_last.should_send /\ speaking
  /\ (/\ vad_last.classified /\ vad_last.answer = "silence"
      /\ obs.from_idle /\ obs.speech_run = 2
      /\ obs.silence_run \in 1..SILENCE_FRAMES_THRESHOLD)
       => vad_last.should_send /\ speaking
  /\ (/\ vad_last.classified /\ vad_last.answer = "silence"
      /\ obs.from_idle /\ obs.speech_run = 2
      /\ obs.silence_run = SILENCE_FRAMES_THRESHOLD + 1)
       => ~vad_last.should_send /\ ~speaking

\* The frame past the threshold has just been dropped after speech, speech.
C9_Witness ==
  /\ vad_last.classified /\ vad_last.answer = "silence"
  /\ obs.from_idle /\ obs.speech_run = 2
  /\ obs.silence_run = SILENCE_FRAMES_THRESHOLD + 1
  /\ ~vad_last.should_send /\ ~speaking

\* What process_vad does to the gate with the flag off and with it on.
GateIgnoresFlag ==
  \A answer \in Answers :
    LET off == process_vad(variant, speaking, silence_frames_count, FullFrame,
                           answer, FALSE, loop_running, Len(audio_queue))
        on  == process_vad(variant, speaking, silence_frames_count, FullFrame,
                           answer, TRUE, loop_running, Len(audio_queue))
    IN /\ off.speaking = on.speaking
       /\ off.silence_frames_count = on.silence_frames_count
       /\ off.should_send = on.should_send
       /\ ~off.put

NothingQueuedWhenOff == ~vad_last.enabled => ~vad_last.put

OneStartPerUtterance == obs.utt_starts <= 1

\* C10 as stated: the gate moves alike with the flag off and on, nothing is
\* queued with the flag off, and the first frame forwarded after the flag
\* came back on inside an utterance is queued, with no second speech start.
C10_ResumedFrameAlwaysQueued ==
  /\ GateIgnoresFlag
  /\ NothingQueuedWhenOff
  /\ OneStartPerUtterance
  /\ vad_last.resumed => vad_last.put

\* C10: the gate moves alike with the flag off and on, nothing is queued with
\* the flag off, speaking rises once per utterance, and the first frame
\* forwarded after the flag came back on inside an utterance is queued
\* exactly when the client is Client-Ws.py, or its loop runs and the queue
\* holds fewer than QSIZE_LIMIT items.
C10_ToggleGating ==
  /\ GateIgnoresFlag
  /\ NothingQueuedWhenOff
  /\ OneStartPerUtterance
  /\ vad_last.resumed =>
       (vad_last.put <=> (variant = "Ws" \/ (vad_last.loop /\ vad_last.room)))

\* The flag came back on inside an utterance and the frame forwarded next
\* was queued.
C10_Witness ==
  /\ vad_last.resumed
  /\ vad_last.put
  /\ vad_last.enabled
  /\ obs.utt_starts = 1
  /\ speaking

\* C11 as stated: whatever the producer and the consumer do, audio_queue
\* never holds more items than the limit the desktop client tests for.
C11_QueueBounded == Len(audio_queue) <= QSIZE_LIMIT

\* C19: the handler closes with 1008 or 1011 only, 1008 only for a language
\* that is not loaded and before any accept, 1011 only in an accepted session
\* that left the loop through the last except clause, and it closes a
\* connection at most once.
C19_CloseCodes ==
  \A s \in Conns :
    /\ Len(close_codes[s]) <= 1
    /\ \A i \in DOMAIN close_codes[s] :
         \/ /\ close_codes[s][i] = 1008
            /\ ~accepted[s]
            /\ lang_code[s] \notin loaded_models
         \/ /\ close_codes[s][i] = 1011
            /\ accepted[s]
            /\ exit[s].kind = "Exception"

\* One session was refused with 1008 and another, accepted, closed with 1011.
C19_Witness ==
  \E s, u \in Conns :
    /\ close_codes[s] = <<1008>>
    /\ close_codes[u] = <<1011>>
    /\ accepted[u]

\* C20: after any block the buffer holds less than a frame, every frame cut
\* has VAD_FRAME_BYTES bytes, and the frames followed by the buffer are the
\* bytes appended so far, in their order.
C20_SegmenterResidue ==
  /\ Len(temp_audio_buffer) < VAD_FRAME_BYTES
  /\ \A i \in DOMAIN out_frames : Len(out_frames[i]) = VAD_FRAME_BYTES
  /\ Concat(out_frames) \o temp_audio_buffer = in_bytes

\* Blocks have left a frame and a residue behind, the bytes not all alike.
C20_Witness ==
  /\ Len(out_frames) >= 1
  /\ temp_audio_buffer # <<>>
  /\ carried
  /\ \E i, j \in DOMAIN in_bytes : in_bytes[i] # in_bytes[j]

(***************************************************************************)
(* Clients: properties of the shutdown.                                    *)
(***************************************************************************)
IsPrefix(s, u) == Len(s) <= Len(u) /\ s = SubSeq(u, 1, Len(s))

\* C12: the queue is first in, first out, so the stop signal is taken by
\* send_task after every item that was put before it and in the order of the
\* puts, and taking it ends the sender's loop: nothing is taken after it.
C12_SentinelAfterItems ==
  /\ IsPrefix(trace.dequeued, trace.enqueued)
  /\ \A i \in DOMAIN trace.dequeued :
       trace.dequeued[i] = None =>
         /\ i = Len(trace.dequeued)
         /\ session.sender # "get"
         /\ session.send_end = "sentinel"

\* Two different frames were put, then the stop signal, and send_task has
\* taken all three.
C12_Witness ==
  /\ Len(trace.dequeued) = 3
  /\ trace.dequeued[1] # trace.dequeued[2]
  /\ trace.dequeued[3] = None
  /\ session.send_end = "sentinel"

ItemsBeforeStop(q) ==
  IF \E i \in DOMAIN q : q[i] = None
  THEN (CHOOSE i \in DOMAIN q : q[i] = None /\ \A j \in 1..(i - 1) : q[j] # None) - 1
  ELSE Len(q)

\* C13: once the receiver is cancelled or the client closes the websocket,
\* send_task has taken every item put before the stop signal and has ended by
\* taking the stop signal.
C13_SenderDrainsFirst ==
  (Happened(trace, "receiver_cancelled") \/ Happened(trace, "socket_closed"))
    /\ session.send_end \notin {"closed"}
  => /\ session.send_end = "sentinel"
     /\ Len(trace.dequeued) > ItemsBeforeStop(trace.enqueued)

Rank(e) == CHOOSE i \in DOMAIN ShutdownOrder : ShutdownOrder[i] = e

\* C14: the events of a shutdown happen in the order capture stopped, stop
\* signal placed, sender finished, receiver cancelled, websocket closed, key
\* listener stopped.
C14_ShutdownOrder ==
  \A i, j \in DOMAIN trace.events :
    i < j => Rank(trace.events[i]) < Rank(trace.events[j])

\* C15: once receive_task or send_task has ended, the client gets to the
\* state where the other task has ended too, the capture is stopped and
\* run_stt_client is over.
C15_OneEndsAllEnd ==
  (session.receiver = "done" \/ session.sender = "done") ~> Closed

\* The receiver ended first, the sender ended by the stop signal, and the
\* client has exited.
C15_Witness ==
  /\ Closed
  /\ session.recv_end \in {"closed", "raised"}
  /\ session.send_end = "sentinel"

\* C18: after the capture fails the client gets to the state where both
\* tasks have ended and run_stt_client is over.
C18_CaptureFailureEndsClient ==
  (session.capture = "failed") ~> Closed

C28_TimeoutStaysActive ==
  /\ [](\A s \in Conns :
          idle[s].timeouts > 0 =>
            /\ state[s] = "Active"
            /\ recognizer[s] # NoRecognizer
            /\ close_codes[s] = <<>>
            /\ exit[s] = NoExit)
  /\ [][\A s \in Conns :
          /\ ReceiveTimeout(s, NoFault) =>
               /\ state'[s] = "Active"
               /\ recognizer'[s] = recognizer[s]
               /\ idle'[s].timeouts > 0
          /\ \A processed \in BOOLEAN :
               (idle[s].timeouts > 0 /\ ReceiveBytes(s, "word", processed, NoFault)) =>
                 /\ state'[s] = "Active"
                 /\ recognizer'[s] = recognizer[s]
                 /\ last'.partial_text = <<s>>
                 /\ last'.emit[s][1] = Msg("partial", <<s>>)]_vars

\* A session has timed out twice in a row with nothing to send and is Active
\* with its recognizer, a chunk waiting for it.
C28_Witness ==
  \E s \in Conns :
    /\ idle[s].timeouts = 2
    /\ idle[s].finals = 0
    /\ state[s] = "Active"
    /\ recognizer[s] # NoRecognizer
    /\ inbound[s] # <<>>

\* C29: once a session is Closed it stays Closed, holds no recognizer, takes
\* no further step, nothing is sent on its socket, no close is added and the
\* words of the recognizer it held are not touched.
C29_ClosedIsTerminal ==
  /\ [](\A s \in Conns : state[s] = "Closed" => recognizer[s] = NoRecognizer)
  /\ [][\A s \in Conns :
          state[s] = "Closed" =>
            /\ state'[s] = "Closed"
            /\ recognizer'[s] = NoRecognizer
            /\ close_codes'[s] = close_codes[s]
            /\ exit'[s] = exit[s]
            /\ last' # last => (last'.actor # s /\ last'.emit[s] = <<>>)
            /\ \A r \in released : pending'[r] = pending[r]]_vars

\* A session ended on a disconnect and the other one has since sent a Final
\* on a timeout.
C29_Witness ==
  \E s, t \in Conns :
    /\ state[s] = "Closed"
    /\ exit[s].kind = "WebSocketDisconnect"
    /\ last.actor = t
    /\ t # s
    /\ last.op = "timeout"
    /\ last.emit[t] # <<>>

\* C30: every message sent has the key partial or the key text, and its text
\* is not empty.
C30_MessageShape ==
  \A t \in Conns :
    \A i \in DOMAIN last.emit[t] :
      /\ last.emit[t][i].key \in {"partial", "text"}
      /\ last.emit[t][i].text # <<>>
      /\ DOMAIN last.emit[t][i] = {"key", "text"}

\* An iteration has sent a partial and then a final, both with text.
C30_Witness ==
  LET e == last.emit[last.actor]
  IN /\ last.actor \in Conns
     /\ Len(e) = 2
     /\ e[1].key = "partial" /\ e[1].text # <<>>
     /\ e[2].key = "text" /\ e[2].text # <<>>

(***************************************************************************)
(* Clients: properties of the gate, frame by frame.                        *)
(***************************************************************************)
\* What a call of process_vad can change besides its own record.
GateState == <<speaking, silence_frames_count, audio_queue, put_pending>>

\* C21: speaking goes from false to true only in a call of process_vad on a
\* frame classified speech, and from true to false only in a call on a frame
\* classified silence that takes silence_frames_count past
\* SILENCE_FRAMES_THRESHOLD; a frame classified speech leaves
\* silence_frames_count at 0 and speaking true, and is forwarded.
C21_SpeakingTransitions ==
  /\ []((vad_last.classified /\ vad_last.answer = "speech") =>
          /\ speaking
          /\ silence_frames_count = 0
          /\ vad_last.should_send)
  /\ [][/\ (~speaking /\ speaking') => ProcessVad("speech")
        /\ (speaking /\ ~speaking') =>
             /\ ProcessVad("silence")
             /\ silence_frames_count <= SILENCE_FRAMES_THRESHOLD
             /\ silence_frames_count' > SILENCE_FRAMES_THRESHOLD]_vars

\* speaking has just gone back to false on the silence frame past the
\* threshold.
C21_Witness ==
  /\ ~speaking
  /\ vad_last.classified /\ vad_last.answer = "silence"
  /\ obs.speech_run >= 1
  /\ obs.silence_run = SILENCE_FRAMES_THRESHOLD + 1
  /\ silence_frames_count = SILENCE_FRAMES_THRESHOLD + 1

\* C22: a call of process_vad on a frame classified silence while speaking
\* is false forwards nothing, queues nothing and leaves speaking and
\* silence_frames_count as they were.
C22_IdleSilenceDropped ==
  [][(~speaking /\ ProcessVad("silence")) =>
       /\ UNCHANGED GateState
       /\ ~vad_last'.should_send
       /\ ~vad_last'.put]_vars

\* A silence frame has arrived after the utterance was over: the count stays
\* where the end of the utterance left it.
C22_Witness ==
  /\ ~speaking
  /\ vad_last.classified /\ vad_last.answer = "silence"
  /\ ~vad_last.should_send
  /\ obs.silence_run = SILENCE_FRAMES_THRESHOLD + 2
  /\ silence_frames_count = SILENCE_FRAMES_THRESHOLD + 1

\* C23: a call of process_vad on a frame whose length is not VAD_FRAME_BYTES
\* classifies nothing, whatever the classifier would answer or raise, queues
\* nothing and leaves speaking and silence_frames_count as they were.
C23_WrongLengthDropped ==
  [][\A frame \in FramesOfAnyLength, answer \in Answers :
       (Len(frame) # VAD_FRAME_BYTES /\ ProcessVadAnyLength(frame, answer)) =>
         /\ UNCHANGED GateState
         /\ UNCHANGED obs
         /\ ~vad_last'.classified
         /\ ~vad_last'.should_send
         /\ ~vad_last'.put]_vars

\* In the middle of an utterance, some silence counted, a frame of the wrong
\* length has come that the classifier would have called speech.
C23_Witness ==
  /\ speaking
  /\ silence_frames_count > 0
  /\ vad_last.answer = "speech"
  /\ ~vad_last.classified

\* C24 as stated: a block holding a sample that is not a number goes by
\* without a byte appended to the buffer, without a frame cut and with the
\* buffer and the gate as they were.
C24_MalformedBlockSkipped ==
  [][\A block \in Blocks, nan_as \in NanCasts :
       (HasNaN(block) /\ AudioBlock(block, nan_as)) =>
         /\ UNCHANGED <<temp_audio_buffer, in_bytes, out_frames>>
         /\ UNCHANGED GateState]_vars

(***************************************************************************)
(* Clients: properties of the hand-off to send_task.                       *)
(***************************************************************************)
NoFrameAfterStop(q) ==
  \A i, j \in DOMAIN q : (i < j /\ q[i] = None) => q[j] = None

\* C25: in the queue, in the puts the loop has still to run followed onto
\* it, and in the order of all puts made, no audio frame comes after a stop
\* signal.
C25_NothingAfterSentinel ==
  /\ NoFrameAfterStop(audio_queue \o put_pending)
  /\ NoFrameAfterStop(trace.enqueued)

\* The queue holds a frame and, behind it, the stop signal.
C25_Witness ==
  /\ Len(audio_queue) >= 2
  /\ audio_queue[1] # None
  /\ audio_queue[Len(audio_queue)] = None

\* C26 as stated: every frame put on the queue is taken by send_task in the
\* end, a sender asleep in get() never coexists with a queue that holds
\* something, and the queue does not change under send_task while it is
\* inside get().
C26_HandoffReachesSender ==
  /\ \A n \in 1..MaxFrames :
       (Len(trace.enqueued) >= n) ~> (Len(trace.dequeued) >= n)
  /\ [](session.sender = "blocked" => audio_queue = <<>>)
  /\ [][session.sender = "registering" => audio_queue' = audio_queue]_vars

(***************************************************************************)
(* Clients: properties of the toggle flag.                                 *)
(***************************************************************************)
\* C31: send_audio_enabled is true at the start; a step changes it only if
\* it is on_press with the toggle key, which negates it; on_press with any
\* other key leaves it as it is, and so does every step of the capture, of
\* the gate, of send_task and of receive_task.
C31_OnlyToggleKeyWritesFlag ==
  /\ send_audio_enabled = TRUE
  /\ [][/\ (send_audio_enabled' # send_audio_enabled) =>
             (OnPress(TOGGLE_KEY) /\ send_audio_enabled' = ~send_audio_enabled)
        /\ OnPress(TOGGLE_KEY) => send_audio_enabled' = ~send_audio_enabled
        /\ (\E key \in Keys_Pressed \ {TOGGLE_KEY} : OnPress(key)) =>
             send_audio_enabled' = send_audio_enabled]_vars

\* The flag is off, a frame has gone through the gate and out on the socket,
\* and a message has come in.
C31_Witness ==
  /\ ~send_audio_enabled
  /\ out_frames # <<>>
  /\ trace.sent # <<>>
  /\ rx_last # NoMessage

(***************************************************************************)
(* Server: the messages of one chunk.                                      *)
(***************************************************************************)
\* C32 as stated: the iteration that handles a received chunk sends at most
\* one message with the key partial.
C32_OnePartialPerChunk ==
  last.op = "bytes" =>
    LET e == last.emit[last.actor]
    IN Cardinality({i \in DOMAIN e : e[i].key = "partial"}) <= 1

(***************************************************************************)
(* Clients: properties of what send_task sends.                            *)
(***************************************************************************)
\* C33 as stated: a frame goes out on the socket only while recording_active
\* is true; once it is false, whatever send_task dequeues is discarded.
C33_NothingSentOnceInactive ==
  [][Len(trace'.sent) > Len(trace.sent) => recording_active]_vars

\* s can be had from u by leaving items out.
RECURSIVE IsSubseq(_, _)
IsSubseq(s, u) ==
  IF s = <<>> THEN TRUE
  ELSE IF u = <<>> THEN FALSE
  ELSE IF Head(s) = Head(u) THEN IsSubseq(Tail(s), Tail(u))
  ELSE IsSubseq(s, Tail(u))

IsFrame(item) == item # None

\* C34: what send_task has sent is, in order and without repetition, part of
\* the frames the capture handed to the gate, and part of the frames that
\* were put on the queue.
C34_SentInCaptureOrder ==
  /\ IsSubseq(trace.sent, out_frames)
  /\ IsSubseq(trace.sent, SelectSeq(trace.enqueued, IsFrame))

\* Two frames that differ were captured, forwarded and sent.
C34_Witness ==
  /\ Len(trace.sent) = 2
  /\ trace.sent[1] # trace.sent[2]
  /\ trace.sent = out_frames

(***************************************************************************)
(* Clients: properties of the connection phase.                            *)
(***************************************************************************)
\* C35 as stated: as long as the client is not connected the queue holds no
\* frame, and after a failed attempt to connect it holds no frame either.
C35_NothingQueuedBeforeConnected ==
  session.main \in {"start", "connecting", "failed"} =>
    SelectSeq(audio_queue, IsFrame) = <<>>

(***************************************************************************)
(* Clients: the gate of one client against the gate of the other.          *)
(***************************************************************************)
\* What process_vad leaves behind and whether it goes on to enqueue the
\* frame (should_send and send_audio_enabled), for either client.
GateOutcome(r, enabled) ==
  [speaking |-> r.speaking, silence_frames_count |-> r.silence_frames_count,
   attempt |-> (r.should_send /\ enabled)]

\* C36: in every gate state a client reaches, and for every frame, answer of
\* the VAD and value of the flag, process_vad of the one client and
\* process_vad of the other leave the same speaking and silence_frames_count
\* and decide alike whether to enqueue; the step the running client takes
\* leaves what both give.  Both start from speaking false and count zero, so
\* they agree frame after frame.
C36_SameGate ==
  [][\A frame \in FramesOfAnyLength, answer \in Answers :
       LET w == process_vad_Ws(speaking, silence_frames_count, frame, answer,
                               send_audio_enabled)
           d == process_vad_Desktop(speaking, silence_frames_count, frame, answer,
                                    send_audio_enabled, loop_running,
                                    Len(audio_queue))
       IN /\ GateOutcome(w, send_audio_enabled) = GateOutcome(d, send_audio_enabled)
          /\ ProcessVadAnyLength(frame, answer) =>
               /\ speaking' = w.speaking
               /\ silence_frames_count' = w.silence_frames_count
               /\ vad_last'.should_send = w.should_send]_vars

\* The silence after speech has just passed the threshold in the desktop
\* client, with the flag off.
C36_Witness ==
  /\ variant = "Desktop"
  /\ vad_last.answer = "silence"
  /\ ~speaking
  /\ silence_frames_count = SILENCE_FRAMES_THRESHOLD + 1
  /\ ~send_audio_enabled

(***************************************************************************)
(* Clients: a frame the VAD fails on.                                      *)
(***************************************************************************)
\* C37: whatever block comes next, if vad.is_speech raises on the first
\* frame cut from the buffer, process_vad leaves speaking,
\* silence_frames_count, the queue and the puts handed to the loop as they
\* were, and the segmenting loop ends where it ends when it starts on the
\* buffer without that frame: the frame is gone from the buffer and the
\* frames after it are processed.  The frame handled last, if the VAD failed
\* on it, was neither forwarded nor put.
C37_VadFailureSkipsFrame ==
  /\ vad_last.answer = "raise" => (~vad_last.should_send /\ ~vad_last.put)
  /\ \A block \in Blocks :
       LET buf == temp_audio_buffer \o ToBytes(block, 0)
           n == Len(buf) \div VAD_FRAME_BYTES
           first == SubSeq(buf, 1, VAD_FRAME_BYTES)
           one == VadStep(variant, Pipeline, first, "raise",
                          send_audio_enabled, loop_running)
       IN (~HasNaN(block) /\ n >= 1) =>
            /\ one.speaking = speaking
            /\ one.silence_frames_count = silence_frames_count
            /\ one.audio_queue = audio_queue
            /\ one.put_pending = put_pending
            /\ \A rest \in [1..(n - 1) -> Answers] :
                 LET all == SegmentLoop(variant, buf, Pipeline, <<"raise">> \o rest,
                                        send_audio_enabled, loop_running)
                     after == SegmentLoop(variant,
                                SubSeq(buf, VAD_FRAME_BYTES + 1, Len(buf)),
                                [Pipeline EXCEPT !.out_frames = Append(@, first),
                                                 !.vad_last = one.vad_last],
                                rest, send_audio_enabled, loop_running)
                 IN /\ all = after
                    /\ Len(all.buf) < VAD_FRAME_BYTES
                    /\ Len(all.g.out_frames) = Len(out_frames) + n

\* The VAD failed on the frame handled last, in the middle of an utterance
\* with a frame queued.
C37_Witness ==
  /\ vad_last.answer = "raise"
  /\ speaking
  /\ Len(out_frames) >= 2
  /\ audio_queue # <<>>

(***************************************************************************)
(* Clients: the range of the silence counter.                              *)
(***************************************************************************)
\* C38: silence_frames_count stays between 0 and SILENCE_FRAMES_THRESHOLD + 1,
\* and once it is past the threshold speaking is false.
C38_SilenceCountRange ==
  /\ silence_frames_count \in 0..(SILENCE_FRAMES_THRESHOLD + 1)
  /\ silence_frames_count > SILENCE_FRAMES_THRESHOLD => ~speaking

\* The counter stands at its largest value, and silence went on after that.
C38_Witness ==
  /\ silence_frames_count = SILENCE_FRAMES_THRESHOLD + 1
  /\ ~speaking
  /\ obs.silence_run > SILENCE_FRAMES_THRESHOLD + 1

=============================================================================
